---- MODULE Spec2Model ----
(***************************************************************************)
(* Model of the statutory moratorium decision engine of claimclaw          *)
(* (claimclaw/legalbrain/rules.py).  Strings are sequences of one-letter   *)
(* strings, calendar dates are records [year, month, day], and a caller    *)
(* invokes one engine function at a time and then consumes the result.     *)
(***************************************************************************)
EXTENDS Integers, Sequences, FiniteSets, TLC

VARIABLES pc, fn, policy_start_date, as_of_date, rejection_reason, alleged_fraud, args, result,
          clock, state, checkpoints, executed, chat_sessions

\* The arguments, locals and result of the engine and evidence functions.
call_vars == <<fn, policy_start_date, as_of_date, rejection_reason, alleged_fraud, args, result>>

\* The system clock, the workflow state with its checkpoint store and the
\* record of the agents it ran, and the web application's chat sessions.
service_vars == <<clock, state, checkpoints, executed, chat_sessions>>

vars == <<pc, call_vars, service_vars>>

(***************************************************************************)
(* Bounds of the model.                                                    *)
(***************************************************************************)
MaxYear == 2029

MaxStartYear == 2024

MaxMonth == 5

MaxAgeTenths == 70

(***************************************************************************)
(* Program constants.                                                      *)
(***************************************************************************)
MORATORIUM_SWITCH_DATE == [year |-> 2024, month |-> 4, day |-> 1]

POST_SWITCH_MORATORIUM_MONTHS == 60

PRE_SWITCH_MORATORIUM_MONTHS == 96

MORATORIUM_YEARS == 5

(***************************************************************************)
(* datetime.date: validity, ordering, isoformat.                           *)
(***************************************************************************)
IsLeap(y) == (y % 4 = 0) /\ ((y % 100 # 0) \/ (y % 400 = 0))

DaysInMonth(y, m) ==
    IF m = 2 THEN (IF IsLeap(y) THEN 29 ELSE 28)
    ELSE IF m \in {4, 6, 9, 11} THEN 30 ELSE 31

IsValidDate(y, m, d) ==
    /\ y >= 1 /\ y <= 9999
    /\ m >= 1 /\ m <= 12
    /\ d >= 1 /\ d <= DaysInMonth(y, m)

DateLess(a, b) ==
    \/ a.year < b.year
    \/ a.year = b.year /\ a.month < b.month
    \/ a.year = b.year /\ a.month = b.month /\ a.day < b.day

DateGeq(a, b) == ~DateLess(a, b)

DigitChars == <<"0", "1", "2", "3", "4", "5", "6", "7", "8", "9">>

DigitChar(n) == DigitChars[n + 1]

IsDigit(c) == \E i \in 1..10 : DigitChars[i] = c

DigitVal(c) == (CHOOSE i \in 1..10 : DigitChars[i] = c) - 1

IsoFormat(d) ==
    << DigitChar(d.year \div 1000), DigitChar((d.year \div 100) % 10),
       DigitChar((d.year \div 10) % 10), DigitChar(d.year % 10), "-",
       DigitChar(d.month \div 10), DigitChar(d.month % 10), "-",
       DigitChar(d.day \div 10), DigitChar(d.day % 10) >>

(***************************************************************************)
(* datetime.strptime(value, "%Y-%m-%d").date(): the whole string must      *)
(* match \d\d\d\d - (1[0-2]|0[1-9]|[1-9]) - (3[01]|[12]\d|0[1-9]|[1-9]|    *)
(* space[1-9]) and name a real calendar day; otherwise ValueError.         *)
(***************************************************************************)
DashPositions(s) == {i \in 1..Len(s) : s[i] = "-"}

MonthField(f) ==
    \/ Len(f) = 1 /\ IsDigit(f[1]) /\ f[1] # "0"
    \/ Len(f) = 2 /\ f[1] = "0" /\ IsDigit(f[2]) /\ f[2] # "0"
    \/ Len(f) = 2 /\ f[1] = "1" /\ f[2] \in {"0", "1", "2"}

DayField(f) ==
    \/ Len(f) = 1 /\ IsDigit(f[1]) /\ f[1] # "0"
    \/ Len(f) = 2 /\ f[1] = "0" /\ IsDigit(f[2]) /\ f[2] # "0"
    \/ Len(f) = 2 /\ f[1] \in {"1", "2"} /\ IsDigit(f[2])
    \/ Len(f) = 2 /\ f[1] = "3" /\ f[2] \in {"0", "1"}
    \/ Len(f) = 2 /\ f[1] = " " /\ IsDigit(f[2]) /\ f[2] # "0"

FieldVal(f) ==
    IF Len(f) = 1 THEN DigitVal(f[1])
    ELSE (IF f[1] = " " THEN 0 ELSE DigitVal(f[1])) * 10 + DigitVal(f[2])

ParseError == [ok |-> FALSE, error |-> "ValueError"]

Strptime(s) ==
    IF Cardinality(DashPositions(s)) # 2 THEN ParseError
    ELSE
        LET p1 == CHOOSE i \in DashPositions(s) : \A j \in DashPositions(s) : i <= j
            p2 == CHOOSE i \in DashPositions(s) : \A j \in DashPositions(s) : j <= i
            yf == SubSeq(s, 1, p1 - 1)
            mf == SubSeq(s, p1 + 1, p2 - 1)
            df == SubSeq(s, p2 + 1, Len(s))
        IN  IF /\ Len(yf) = 4 /\ \A i \in 1..4 : IsDigit(yf[i])
               /\ MonthField(mf)
               /\ DayField(df)
            THEN LET y == DigitVal(yf[1]) * 1000 + DigitVal(yf[2]) * 100
                          + DigitVal(yf[3]) * 10 + DigitVal(yf[4])
                     m == FieldVal(mf)
                     d == FieldVal(df)
                 IN  IF IsValidDate(y, m, d)
                     THEN [ok |-> TRUE, date |-> [year |-> y, month |-> m, day |-> d]]
                     ELSE ParseError
            ELSE ParseError

(***************************************************************************)
(* Python values handed to the engine: a str, a date, a datetime or None.  *)
(***************************************************************************)
None == [kind |-> "none"]

Str(chars) == [kind |-> "str", chars |-> chars]

DateValue(d) == [kind |-> "date", date |-> d]

DatetimeValue(d, h) == [kind |-> "datetime", date |-> d, hour |-> h]

PyBool(b) == [kind |-> "bool", v |-> b]

\* Python truthiness of a value: None, the empty string and False are falsy.
Truthy(value) ==
    /\ value.kind # "none"
    /\ (value.kind = "str" => Len(value.chars) > 0)
    /\ (value.kind = "bool" => value.v)

\* Faulty variant: a datetime is handed to strptime like a string.
ToDate_DatetimeParsed(value) ==
    IF value.kind = "date" THEN [ok |-> TRUE, date |-> value.date]
    ELSE IF value.kind = "str" THEN Strptime(value.chars)
    ELSE [ok |-> FALSE, error |-> "TypeError"]

ToDate(value) ==
    IF value.kind = "date" THEN [ok |-> TRUE, date |-> value.date]
    ELSE IF value.kind = "datetime" THEN [ok |-> TRUE, date |-> value.date]
    ELSE IF value.kind = "str" THEN Strptime(value.chars)
    ELSE [ok |-> FALSE, error |-> "TypeError"]

(***************************************************************************)
(* _months_between: whole completed months, floored at zero.               *)
(***************************************************************************)
Max(a, b) == IF a >= b THEN a ELSE b

MonthsBetween_NoDayAdjust(start, end) ==
    Max(0, (end.year - start.year) * 12 + (end.month - start.month))

MonthsBetween_NoClamp(start, end) ==
    LET months == (end.year - start.year) * 12 + (end.month - start.month)
    IN  IF end.day < start.day THEN months - 1 ELSE months

\* Faulty variant: the incomplete month is detected with the comparison reversed.
MonthsBetween_DayAdjustReversed(start, end) ==
    LET months == (end.year - start.year) * 12 + (end.month - start.month)
    IN  Max(0, IF end.day > start.day THEN months - 1 ELSE months)

MonthsBetween(start, end) ==
    LET months == (end.year - start.year) * 12 + (end.month - start.month)
    IN  Max(0, IF end.day < start.day THEN months - 1 ELSE months)

(***************************************************************************)
(* check_moratorium_eligibility.                                           *)
(***************************************************************************)
PostRule == "post_april_2024_5_year_rule"

PreRule == "pre_april_2024_8_year_rule"

SelectRule_StrictlyAfter(policy_start) ==
    IF DateLess(MORATORIUM_SWITCH_DATE, policy_start)
    THEN [cap |-> POST_SWITCH_MORATORIUM_MONTHS, rule_applied |-> PostRule]
    ELSE [cap |-> PRE_SWITCH_MORATORIUM_MONTHS, rule_applied |-> PreRule]

SelectRule_PostCapAlways(policy_start) ==
    IF DateGeq(policy_start, MORATORIUM_SWITCH_DATE)
    THEN [cap |-> POST_SWITCH_MORATORIUM_MONTHS, rule_applied |-> PostRule]
    ELSE [cap |-> POST_SWITCH_MORATORIUM_MONTHS, rule_applied |-> PreRule]

SelectRule(policy_start) ==
    IF DateGeq(policy_start, MORATORIUM_SWITCH_DATE)
    THEN [cap |-> POST_SWITCH_MORATORIUM_MONTHS, rule_applied |-> PostRule]
    ELSE [cap |-> PRE_SWITCH_MORATORIUM_MONTHS, rule_applied |-> PreRule]

Eligible_Exclusive(age_months, cap) == age_months > cap

Eligible(age_months, cap) == age_months >= cap

Raised(error) == [status |-> "raised", error |-> error]

Returned(value) == [status |-> "returned", value |-> value]

MoratoriumCheck(policy_start, current, age_months, rule) ==
    [ policy_start_date |-> IsoFormat(policy_start),
      as_of_date |-> IsoFormat(current),
      policy_age_months |-> age_months,
      applicable_moratorium_months |-> rule.cap,
      eligible_for_moratorium_protection |-> Eligible(age_months, rule.cap),
      rule_applied |-> rule.rule_applied ]

\* Faulty variant: it selects the window by the reference date, not the start date.
CheckMoratoriumEligibility_RuleByAsOf(start_value, as_of_value, today) ==
    LET ps == ToDate(start_value)
        cur == IF Truthy(as_of_value) THEN ToDate(as_of_value)
               ELSE [ok |-> TRUE, date |-> today]
    IN  IF ~ps.ok THEN Raised(ps.error)
        ELSE IF ~cur.ok THEN Raised(cur.error)
        ELSE Returned(MoratoriumCheck(ps.date, cur.date,
                                      MonthsBetween(ps.date, cur.date),
                                      SelectRule(cur.date)))

\* Faulty variant: it refuses a reference date that precedes the policy start.
CheckMoratoriumEligibility_RejectsEarlierAsOf(start_value, as_of_value, today) ==
    LET ps == ToDate(start_value)
        cur == IF Truthy(as_of_value) THEN ToDate(as_of_value)
               ELSE [ok |-> TRUE, date |-> today]
    IN  IF ~ps.ok THEN Raised(ps.error)
        ELSE IF ~cur.ok THEN Raised(cur.error)
        ELSE IF DateLess(cur.date, ps.date) THEN Raised("ValueError")
        ELSE Returned(MoratoriumCheck(ps.date, cur.date,
                                      MonthsBetween(ps.date, cur.date),
                                      SelectRule(ps.date)))

CheckMoratoriumEligibility(start_value, as_of_value, today) ==
    LET ps == ToDate(start_value)
        cur == IF Truthy(as_of_value) THEN ToDate(as_of_value)
               ELSE [ok |-> TRUE, date |-> today]
    IN  IF ~ps.ok THEN Raised(ps.error)
        ELSE IF ~cur.ok THEN Raised(cur.error)
        ELSE Returned(MoratoriumCheck(ps.date, cur.date,
                                      MonthsBetween(ps.date, cur.date),
                                      SelectRule(ps.date)))

(***************************************************************************)
(* str.lower() and the substring test `token in lowered`.                  *)
(***************************************************************************)
UpperChars == <<"A", "B", "C", "D", "E", "F", "G", "H", "I", "J", "K", "L", "M", "N", "O", "P", "Q", "R", "S", "T", "U", "V", "W", "X", "Y", "Z">>

LowerChars == <<"a", "b", "c", "d", "e", "f", "g", "h", "i", "j", "k", "l", "m", "n", "o", "p", "q", "r", "s", "t", "u", "v", "w", "x", "y", "z">>

LowerChar(c) ==
    IF \E i \in 1..26 : UpperChars[i] = c
    THEN LowerChars[CHOOSE i \in 1..26 : UpperChars[i] = c]
    ELSE c

Lower(s) ==
    CHOOSE lowered \in {[i \in 1..Len(str) |-> LowerChar(str[i])] : str \in {s}} : TRUE

Whitespace == {" ", "\t", "\n", "\r"}

\* str.strip(): drops leading and trailing whitespace.
Strip(s) ==
    LET Kept(str) == {i \in 1..Len(str) : str[i] \notin Whitespace}
        Cut(str, kept) ==
            IF kept = {} THEN <<>>
            ELSE SubSeq(str, CHOOSE i \in kept : \A j \in kept : i <= j,
                             CHOOSE i \in kept : \A j \in kept : j <= i)
    IN  CHOOSE stripped \in
            UNION { {Cut(str, kept) : kept \in {Kept(str)}} : str \in {s} } : TRUE

\* token in s; str is s evaluated once.
Contains(s, token) ==
    \E str \in {s} :
        \E i \in 1..(Len(str) - Len(token) + 1) :
            SubSeq(str, i, i + Len(token) - 1) = token

(***************************************************************************)
(* should_override_nondisclosure_rejection.                                *)
(***************************************************************************)
NondisclosureTokens ==
    { <<"n", "o", "n", "-", "d", "i", "s", "c", "l", "o", "s", "u", "r", "e">>,
      <<"n", "o", "n", "d", "i", "s", "c", "l", "o", "s", "u", "r", "e">>,
      <<"n", "o", "n", " ", "d", "i", "s", "c", "l", "o", "s", "u", "r", "e">>,
      <<"s", "u", "p", "p", "r", "e", "s", "s", "i", "o", "n">>,
      <<"p", "r", "e", "-", "e", "x", "i", "s", "t", "i", "n", "g">>,
      <<"p", "r", "e", " ", "e", "x", "i", "s", "t", "i", "n", "g">>,
      <<"p", "e", "d">>,
      <<"h", "i", "d", "d", "e", "n">> }

\* Faulty variant: it matches the tokens without lowercasing the reason.
IsNondisclosure_CaseSensitive(reason) ==
    \E token \in NondisclosureTokens : Contains(reason, token)

IsNondisclosure(reason) ==
    LET lowered == Lower(reason)
    IN  \E token \in NondisclosureTokens : Contains(lowered, token)

Override_IgnoresFraud(eligible, is_nondisclosure, fraud) ==
    eligible /\ is_nondisclosure

Override(eligible, is_nondisclosure, fraud) ==
    eligible /\ is_nondisclosure /\ ~fraud

OverrideReason == "Override rejection: moratorium window elapsed, non-disclosure basis cannot be used without proven fraud."

FraudReason == "Fraud allegation present: override not automatic, insurer proof must be examined."

NotNondisclosureReason == "Rejection reason is not a non-disclosure class dispute."

NotElapsedReason == "Moratorium period not yet elapsed."

\* Faulty variant: it tests the fallback branches before the fraud branch.
DecisionReason_FraudLast(override, is_nondisclosure, fraud) ==
    IF override THEN OverrideReason
    ELSE IF ~is_nondisclosure THEN NotNondisclosureReason
    ELSE NotElapsedReason

\* Faulty variant: it reports the fraud reason whenever fraud is alleged.
DecisionReason_FraudAlone(override, is_nondisclosure, fraud) ==
    IF override THEN OverrideReason
    ELSE IF fraud THEN FraudReason
    ELSE IF ~is_nondisclosure THEN NotNondisclosureReason
    ELSE NotElapsedReason

DecisionReason(override, is_nondisclosure, fraud) ==
    IF override THEN OverrideReason
    ELSE IF fraud /\ is_nondisclosure THEN FraudReason
    ELSE IF ~is_nondisclosure THEN NotNondisclosureReason
    ELSE NotElapsedReason

ShouldOverrideNondisclosureRejection(start_value, reason, as_of_value, fraud, today) ==
    LET moratorium == CheckMoratoriumEligibility(start_value, as_of_value, today)
    IN  IF moratorium.status = "raised" THEN moratorium
        ELSE LET is_nondisclosure == IsNondisclosure(reason)
                 override == Override(moratorium.value.eligible_for_moratorium_protection,
                                      is_nondisclosure, fraud)
             IN  Returned([ moratorium |-> moratorium.value,
                            rejection_reason |-> reason,
                            alleged_fraud |-> fraud,
                            is_nondisclosure_rejection |-> is_nondisclosure,
                            override_nondisclosure_rejection |-> override,
                            decision_reason |->
                                DecisionReason(override, is_nondisclosure, fraud) ])

(***************************************************************************)
(* moratorium_rule_check (legal_rag.py).  policy_age_years is a float; the *)
(* model counts it in tenths of a year, so 5.0 years is 50.                *)
(***************************************************************************)
NondisclosureKeywords ==
    { <<"n", "o", "n", "-", "d", "i", "s", "c", "l", "o", "s", "u", "r", "e">>,
      <<"n", "o", "n", "d", "i", "s", "c", "l", "o", "s", "u", "r", "e">>,
      <<"s", "u", "p", "p", "r", "e", "s", "s", "i", "o", "n">>,
      <<"p", "r", "e", "-", "e", "x", "i", "s", "t", "i", "n", "g">>,
      <<"p", "r", "e", " ", "e", "x", "i", "s", "t", "i", "n", "g">>,
      <<"p", "e", "d">>,
      <<"h", "i", "d", "d", "e", "n">> }

NondisclosureDispute(reason) ==
    LET lowered == Lower(reason)
    IN  \E token \in NondisclosureKeywords : Contains(lowered, token)

MoratoriumApplies_Inclusive(age_tenths) == age_tenths >= MORATORIUM_YEARS * 10

MoratoriumApplies(age_tenths) == age_tenths > MORATORIUM_YEARS * 10

LegalBasis == "IRDAI health insurance moratorium standard (updated April 2024): after 5 years of continuous coverage, non-disclosure disputes cannot be used to repudiate claims unless fraud is proven."

DemandReversalAction == "Demand immediate reversal, cite 5-year moratorium protection, and escalate to Bima Bharosa and Insurance Ombudsman if insurer does not comply."

RequestBasisAction == "Request full repudiation basis with clause citations and evidence, then proceed to escalation if grounds remain weak or non-compliant."

MoratoriumRuleCheck(age_tenths, reason, fraud) ==
    LET nondisclosure_dispute == NondisclosureDispute(reason)
        moratorium_applies == MoratoriumApplies(age_tenths)
        illegal_rejection == moratorium_applies /\ nondisclosure_dispute /\ ~fraud
    IN  [ moratorium_applies |-> moratorium_applies,
          illegal_rejection |-> illegal_rejection,
          legal_basis |-> LegalBasis,
          recommended_action |->
              IF illegal_rejection THEN DemandReversalAction ELSE RequestBasisAction ]

(***************************************************************************)
(* _coerce_to_date (evidence_matcher.py): the string is stripped and the   *)
(* formats are tried in order; the first that matches wins.                *)
(***************************************************************************)
FullMonthNames ==
    << <<"j", "a", "n", "u", "a", "r", "y">>,
       <<"f", "e", "b", "r", "u", "a", "r", "y">>,
       <<"m", "a", "r", "c", "h">>,
       <<"a", "p", "r", "i", "l">>,
       <<"m", "a", "y">>,
       <<"j", "u", "n", "e">>,
       <<"j", "u", "l", "y">>,
       <<"a", "u", "g", "u", "s", "t">>,
       <<"s", "e", "p", "t", "e", "m", "b", "e", "r">>,
       <<"o", "c", "t", "o", "b", "e", "r">>,
       <<"n", "o", "v", "e", "m", "b", "e", "r">>,
       <<"d", "e", "c", "e", "m", "b", "e", "r">> >>

AbbreviatedMonthNames ==
    << <<"j", "a", "n">>, <<"f", "e", "b">>, <<"m", "a", "r">>, <<"a", "p", "r">>, <<"m", "a", "y">>, <<"j", "u", "n">>, <<"j", "u", "l">>, <<"a", "u", "g">>, <<"s", "e", "p">>, <<"o", "c", "t">>, <<"n", "o", "v">>, <<"d", "e", "c">> >>

SepPositions(s, sep) == {i \in 1..Len(s) : s[i] = sep}

NthSmallest(S, n) == CHOOSE x \in S : Cardinality({y \in S : y < x}) = n - 1

YearField(f) == Len(f) = 4 /\ \A i \in 1..4 : IsDigit(f[i])

YearVal(f) ==
    DigitVal(f[1]) * 1000 + DigitVal(f[2]) * 100 + DigitVal(f[3]) * 10 + DigitVal(f[4])

MakeDate(y, m, d) ==
    IF IsValidDate(y, m, d)
    THEN [ok |-> TRUE, date |-> [year |-> y, month |-> m, day |-> d]]
    ELSE ParseError

\* "%d<sep>%m<sep>%Y" for "%d-%m-%Y" and "%d/%m/%Y".
StrptimeDayMonthYear(s, sep) ==
    LET seps == SepPositions(s, sep)
    IN  IF Cardinality(seps) # 2 THEN ParseError
        ELSE LET p1 == NthSmallest(seps, 1)
                 p2 == NthSmallest(seps, 2)
                 df == SubSeq(s, 1, p1 - 1)
                 mf == SubSeq(s, p1 + 1, p2 - 1)
                 yf == SubSeq(s, p2 + 1, Len(s))
             IN  IF DayField(df) /\ MonthField(mf) /\ YearField(yf)
                 THEN MakeDate(YearVal(yf), FieldVal(mf), FieldVal(df))
                 ELSE ParseError

\* The words of a string: its maximal runs without whitespace.
WordStarts(s) ==
    {i \in 1..Len(s) : s[i] \notin Whitespace /\ (i = 1 \/ s[i - 1] \in Whitespace)}

WordEnds(s) ==
    {i \in 1..Len(s) : s[i] \notin Whitespace /\ (i = Len(s) \/ s[i + 1] \in Whitespace)}

Word(s, n) == SubSeq(s, NthSmallest(WordStarts(s), n), NthSmallest(WordEnds(s), n))

IsMonthName(names, w) == \E m \in 1..12 : names[m] = Lower(w)

MonthOfName(names, w) == CHOOSE m \in 1..12 : names[m] = Lower(w)

\* "%d %B %Y" and "%d %b %Y": day, month name, year, whitespace between.
StrptimeDayNameYear(s, names) ==
    IF Cardinality(WordStarts(s)) # 3 \/ 1 \notin WordStarts(s)
    THEN ParseError
    ELSE LET df == Word(s, 1)
             nf == Word(s, 2)
             yf == Word(s, 3)
         IN  IF /\ DayField(df) /\ IsMonthName(names, nf) /\ YearField(yf)
                /\ Len(s) \in WordEnds(s)
             THEN MakeDate(YearVal(yf), MonthOfName(names, nf), FieldVal(df))
             ELSE ParseError

\* "%B %d, %Y" and "%b %d, %Y": month name, day and comma, year.
StrptimeNameDayYear(s, names) ==
    IF Cardinality(WordStarts(s)) # 3 \/ 1 \notin WordStarts(s)
    THEN ParseError
    ELSE LET nf == Word(s, 1)
             dc == Word(s, 2)
             yf == Word(s, 3)
             df == SubSeq(dc, 1, Len(dc) - 1)
         IN  IF /\ IsMonthName(names, nf)
                /\ Len(dc) >= 2 /\ dc[Len(dc)] = "," /\ DayField(df)
                /\ YearField(yf)
                /\ Len(s) \in WordEnds(s)
             THEN MakeDate(YearVal(yf), MonthOfName(names, nf), FieldVal(df))
             ELSE ParseError

FirstOk(attempts) ==
    IF \E i \in 1..Len(attempts) : attempts[i].ok
    THEN attempts[CHOOSE i \in 1..Len(attempts) :
                      attempts[i].ok /\ \A j \in 1..(i - 1) : ~attempts[j].ok]
    ELSE ParseError

CoerceToDate(value) ==
    IF value.kind = "date" THEN [ok |-> TRUE, date |-> value.date]
    ELSE IF value.kind = "datetime" THEN [ok |-> TRUE, date |-> value.date]
    ELSE LET v == Strip(value.chars)
         IN  FirstOk(<< Strptime(v),
                        StrptimeDayMonthYear(v, "-"),
                        StrptimeDayMonthYear(v, "/"),
                        StrptimeDayNameYear(v, FullMonthNames),
                        StrptimeDayNameYear(v, AbbreviatedMonthNames),
                        StrptimeNameDayYear(v, FullMonthNames),
                        StrptimeNameDayYear(v, AbbreviatedMonthNames) >>)

(***************************************************************************)
(* date subtraction: the difference of the proleptic Gregorian ordinals.   *)
(***************************************************************************)
DaysBeforeYear(y) ==
    (y - 1) * 365 + ((y - 1) \div 4) - ((y - 1) \div 100) + ((y - 1) \div 400)

DaysBeforeMonth(y, m) ==
    LET before[k \in 1..12] ==
            IF k = 1 THEN 0 ELSE before[k - 1] + DaysInMonth(y, k - 1)
    IN  before[m]

ToOrdinal(d) == DaysBeforeYear(d.year) + DaysBeforeMonth(d.year, d.month) + d.day

(***************************************************************************)
(* calculate_claim_to_rejection_days and                                   *)
(* check_irdai_2017_response_time_compliance.                              *)
(***************************************************************************)
CalculateClaimToRejectionDays(claim_date, repudiation_date) ==
    ToOrdinal(repudiation_date) - ToOrdinal(claim_date)

ResponseTimeViolation_Inclusive(days_to_rejection) == days_to_rejection >= 15

ResponseTimeViolation(days_to_rejection) == days_to_rejection > 15

ResponseRuleReference == "IRDAI Protection of Policyholders' Interests Regulations, 2017 (15-day response rule)"

CheckIrdai2017ResponseTimeCompliance(claim_submission_date, rejection_date) ==
    LET claim_date == CoerceToDate(claim_submission_date)
        repudiation_date == CoerceToDate(rejection_date)
    IN  IF ~claim_date.ok THEN Raised(claim_date.error)
        ELSE IF ~repudiation_date.ok THEN Raised(repudiation_date.error)
        ELSE LET days_to_rejection ==
                     CalculateClaimToRejectionDays(claim_date.date, repudiation_date.date)
                 violation == ResponseTimeViolation(days_to_rejection)
             IN  Returned([ claim_submission_date |-> IsoFormat(claim_date.date),
                            rejection_date |-> IsoFormat(repudiation_date.date),
                            days_to_rejection |-> days_to_rejection,
                            violation_15_day_rule |-> violation,
                            regulatory_reference |-> ResponseRuleReference,
                            compliance_status |->
                                IF violation THEN "violation" ELSE "compliant" ])

(***************************************************************************)
(* Text helpers of evidence_matcher.py.                                    *)
(***************************************************************************)
\* re.sub(r"\s+", " ", text).strip(), also " ".join(text.split()): every run
\* of whitespace inside the text becomes one space, the ends are trimmed.
CollapseWhitespace(s) ==
    LET kept == {i \in 1..Len(s) :
                    \/ s[i] \notin Whitespace
                    \/ /\ i > 1 /\ s[i - 1] \notin Whitespace
                       /\ \E j \in (i + 1)..Len(s) : s[j] \notin Whitespace}
    IN  [k \in 1..Cardinality(kept) |->
            LET c == s[NthSmallest(kept, k)]
            IN  IF c \in Whitespace THEN " " ELSE c]

Truncate(s, n) == IF Len(s) <= n THEN s ELSE SubSeq(s, 1, n)

\* _clean of the extractor: None stays None, empty text becomes None.
CleanOrNone(value) ==
    IF value.kind = "none" THEN None
    ELSE IF value.kind = "bool"
    THEN Str(IF value.v THEN <<"T", "r", "u", "e">> ELSE <<"F", "a", "l", "s", "e">>)
    ELSE LET text == CollapseWhitespace(value.chars)
         IN  IF Len(text) = 0 THEN None ELSE Str(text)

OrEmpty(value) == IF Truthy(value) THEN value.chars ELSE <<>>

TruthyWords == { <<"1">>, <<"t", "r", "u", "e">>, <<"y", "e", "s">>, <<"y">> }

\* _to_bool: a bool is itself, a string is true for 1/true/yes/y, else False.
ToBool(value) ==
    IF value.kind = "bool" THEN value.v
    ELSE IF value.kind = "str" THEN Lower(Strip(value.chars)) \in TruthyWords
    ELSE FALSE

\* _append_unique_flag; a flag is a template with the text inserted in it,
\* and fs is the list evaluated once.
Flag(template, text) == [template |-> template, text |-> text]

AppendUniqueFlag(flags, flag) ==
    CHOOSE appended \in
        { IF \E i \in 1..Len(fs) : fs[i] = flag THEN fs ELSE Append(fs, flag) :
            fs \in {flags} } : TRUE

(***************************************************************************)
(* _extract_rejection_structure_with_llm: parsed is the JSON object the    *)
(* model answered with (empty when the call or the parsing failed).        *)
(***************************************************************************)
GhostRejectionOfExtraction(clause_id, is_present, ghost_hint) ==
    IF Len(clause_id) = 0 /\ ToBool(ghost_hint) THEN TRUE
    ELSE Len(clause_id) > 0 /\ ~is_present

ExtractRejectionStructureWithLlm(llm_configured, parsed) ==
    IF ~llm_configured
    THEN [ clause_id |-> <<>>,
           clause_text |-> <<>>,
           policy_clause_excerpt |-> <<>>,
           is_clause_present_in_policy |-> FALSE,
           ghost_rejection |-> FALSE,
           rejection_reason |-> <<>>,
           error |-> "forensic_llm_not_configured" ]
    ELSE LET clause_id == OrEmpty(CleanOrNone(parsed.clause_id))
             is_present == ToBool(parsed.is_clause_present_in_policy)
         IN  [ clause_id |-> clause_id,
               clause_text |-> OrEmpty(CleanOrNone(parsed.clause_text)),
               policy_clause_excerpt |-> OrEmpty(CleanOrNone(parsed.policy_clause_excerpt)),
               is_clause_present_in_policy |-> is_present,
               ghost_rejection |->
                   GhostRejectionOfExtraction(clause_id, is_present, parsed.ghost_rejection),
               rejection_reason |-> OrEmpty(CleanOrNone(parsed.rejection_reason)) ]

(***************************************************************************)
(* _is_nondisclosure_rejection and _is_legacy_moratorium_clause.           *)
(***************************************************************************)
RejectionTokens ==
    { <<"n", "o", "n", "-", "d", "i", "s", "c", "l", "o", "s", "u", "r", "e">>,
      <<"n", "o", "n", "d", "i", "s", "c", "l", "o", "s", "u", "r", "e">>,
      <<"n", "o", "n", " ", "d", "i", "s", "c", "l", "o", "s", "u", "r", "e">>,
      <<"s", "u", "p", "p", "r", "e", "s", "s", "i", "o", "n">>,
      <<"p", "r", "e", "-", "e", "x", "i", "s", "t", "i", "n", "g">>,
      <<"p", "r", "e", " ", "e", "x", "i", "s", "t", "i", "n", "g">>,
      <<"p", "e", "d">>,
      <<"h", "i", "d", "d", "e", "n">> }

IsNondisclosureRejection(rejection_reason_text) ==
    LET lowered == Lower(rejection_reason_text)
    IN  \E token \in RejectionTokens : Contains(lowered, token)

LegacyWindowTokens ==
    { <<"8", " ", "y", "e", "a", "r", "s">>,
      <<"8", " ", "y", "e", "a", "r">>,
      <<"8", "-", "y", "e", "a", "r">>,
      <<"9", "6", " ", "m", "o", "n", "t", "h", "s">>,
      <<"9", "6", " ", "m", "o", "n", "t", "h">>,
      <<"9", "6", "-", "m", "o", "n", "t", "h">> }

NondisclosureContextTokens ==
    { <<"n", "o", "n", "-", "d", "i", "s", "c", "l", "o", "s", "u", "r", "e">>,
      <<"n", "o", "n", "d", "i", "s", "c", "l", "o", "s", "u", "r", "e">>,
      <<"n", "o", "n", " ", "d", "i", "s", "c", "l", "o", "s", "u", "r", "e">>,
      <<"p", "r", "e", "-", "e", "x", "i", "s", "t", "i", "n", "g">>,
      <<"p", "r", "e", " ", "e", "x", "i", "s", "t", "i", "n", "g">>,
      <<"p", "e", "d">>,
      <<"s", "u", "p", "p", "r", "e", "s", "s", "i", "o", "n">>,
      <<"m", "o", "r", "a", "t", "o", "r", "i", "u", "m">> }

IsLegacyMoratoriumClause(clause_excerpt, rejection_reason_text) ==
    LET lowered == Lower(clause_excerpt)
        has_legacy_window == \E token \in LegacyWindowTokens : Contains(lowered, token)
        has_nondisclosure_context ==
            \E token \in NondisclosureContextTokens : Contains(lowered, token)
    IN  /\ has_legacy_window
        /\ has_nondisclosure_context
        /\ IsNondisclosureRejection(rejection_reason_text)

(***************************************************************************)
(* _extract_rejection_reason and evaluate_contestability.                  *)
(***************************************************************************)
ExtractRejectionReason(rejection_text, structured_rejection) ==
    IF Len(structured_rejection.rejection_reason) > 0
    THEN structured_rejection.rejection_reason
    ELSE Truncate(CollapseWhitespace(rejection_text), 280)

\* " ".join(...) of the lowercased "description category" of every bill item.
BillText(bill_items) ==
    LET joined[k \in 0..Len(bill_items)] ==
            IF k = 0 THEN <<>>
            ELSE LET item == Lower(bill_items[k].description \o <<" ">>
                                       \o bill_items[k].category)
                 IN  IF k = 1 THEN item ELSE joined[k - 1] \o <<" ">> \o item
    IN  joined[Len(bill_items)]

NonMedicalFlag == "Rejection cites non-medical expense but bill contains surgery consumables tied to treatment."

PreExistingFlag == "Pre-existing disease assertion appears weak against acute diagnosis wording."

ValidateMoratoriumFlag == "Validate moratorium applicability in legal node: if policy age is over 5 years, repudiation requires proven fraud."

EvaluateContestability(rejection_reason_text, diagnosis_summary, bill_items) ==
    LET reasons == Lower(rejection_reason_text)
        diagnosis == Lower(diagnosis_summary)
        bill_text == BillText(bill_items)
        non_medical ==
            /\ Contains(reasons, <<"n", "o", "n", "-", "m", "e", "d", "i", "c", "a", "l", " ", "e", "x", "p", "e", "n", "s", "e">>)
            /\ \/ Contains(bill_text, <<"s", "u", "r", "g", "e", "r", "y", " ", "c", "o", "n", "s", "u", "m", "a", "b", "l", "e">>)
               \/ Contains(bill_text, <<"c", "o", "n", "s", "u", "m", "a", "b", "l", "e">>) /\ Contains(diagnosis, <<"s", "u", "r", "g", "e", "r", "y">>)
        pre_existing == Contains(reasons, <<"p", "r", "e", "-", "e", "x", "i", "s", "t", "i", "n", "g">>) /\ Contains(diagnosis, <<"a", "c", "u", "t", "e">>)
        flags1 == IF non_medical THEN <<Flag(NonMedicalFlag, <<>>)>> ELSE <<>>
        flags2 == IF pre_existing THEN Append(flags1, Flag(PreExistingFlag, <<>>))
                  ELSE flags1
        flags3 == IF IsNondisclosureRejection(rejection_reason_text)
                  THEN Append(flags2, Flag(ValidateMoratoriumFlag, <<>>))
                  ELSE flags2
    IN  [ contestable |-> non_medical \/ pre_existing,
          flags |-> flags3,
          rejection_reason |-> rejection_reason_text,
          diagnosis_summary |-> diagnosis_summary,
          bill_items |-> bill_items ]

(***************************************************************************)
(* analyze_documents.  The texts read from the documents and the answers   *)
(* of the three model-backed steps are the inputs of the call; the report  *)
(* is computed from them in the order of the code.                         *)
(***************************************************************************)
IRDAI_MORATORIUM_CITATION == "IRDAI/HLT/CIR/PRO/84/5/2024, Clause 6.1"

AnchorMissingFlag == "Clause anchor missing in rejection letter extraction. Treating repudiation as contestable."

ClinicalDistinctionTemplate == "Clinical distinction: {clinical_reason}"

ClinicalDistinctionDefault == "Clinical distinction: rejection cites chronic/pre-existing disease basis, but discharge evidence supports acute onset episode."

ConstructiveKnowledgeTemplate == "Constructive knowledge check: {constructive_reason}"

GhostRejectionTemplate == "Ghost Rejection: insurer cited {cited_reference}, but this term is not present in the policy contract."

VoidClauseTemplate == "Policy {cited_reference} is now void as per IRDAI Ref: IRDAI/HLT/CIR/PRO/84/5/2024, Clause 6.1."

VoidCitedClauseNote == "Policy clause cited by insurer is void as per IRDAI Ref: IRDAI/HLT/CIR/PRO/84/5/2024, Clause 6.1."

StatutoryPrimacyTemplate == "Statutory primacy: {statutory_reason}"

ResponseTimelineFlag == "IRDAI Protection of Policyholders' Interests Regulations, 2017: 15-day response timeline appears violated."

ComplianceUnknown ==
    [ status |-> "unknown",
      reason |-> "Claim submission and rejection dates were not both available for 15-day compliance check." ]

CONSTRUCTIVE_KNOWLEDGE_LEGAL_NOTE == "The insurer had constructive knowledge of the condition as the specific maintenance medication (Telmisartan 40mg) was explicitly disclosed in the proposal form. Failure to seek further clarification at the time of underwriting waives the right to reject now."

\* The empty conflict_note.
NoNote == Flag("", <<>>)

\* A report field that holds a constant text or null.
Text(t) == [kind |-> "str", text |-> t]

NoText == [kind |-> "none", text |-> ""]

\* str(value or "").strip()
StrippedOrEmpty(value) == Strip(OrEmpty(value))

\* Faulty variant: it keeps the ghost_rejection value the extractor returned.
GhostRejection_KeepsExtractorValue(clause_id, is_clause_present_in_policy, extracted) ==
    extracted

\* Lines 698-699: a cited clause that is absent from the policy is a ghost.
GhostRejection(clause_id, is_clause_present_in_policy, extracted) ==
    IF Len(clause_id) > 0 /\ ~is_clause_present_in_policy THEN TRUE ELSE extracted

\* Faulty variant: only the statutory primacy answer voids a present clause.
OverrideOfPresentClause_StatutoryOnly(policy_clause_excerpt, rejection_reason_text, statutory) ==
    statutory

\* Line 759: the condition under which a clause present in the policy is void.
OverrideOfPresentClause(policy_clause_excerpt, rejection_reason_text, statutory) ==
    IsLegacyMoratoriumClause(policy_clause_excerpt, rejection_reason_text) \/ statutory

\* Faulty variant: only the medication cross-reference is consulted.
ConstructiveKnowledge_MedicationOnly(medication_cross_reference, global_reasoning) ==
    Truthy(medication_cross_reference.constructive_knowledge)

\* Lines 736-738: either model-backed step may report constructive knowledge.
ConstructiveKnowledge(medication_cross_reference, global_reasoning) ==
    \/ Truthy(medication_cross_reference.constructive_knowledge)
    \/ Truthy(global_reasoning.constructive_knowledge)

\* The flags appended in turn: an entry is appended when its condition holds,
\* through _append_unique_flag unless it is marked as a plain append.
AppendFlags(flags, entries) ==
    LET Appended(fs, es) ==
            LET appended[k \in 0..Len(es)] ==
                    IF k = 0 THEN fs
                    ELSE IF ~es[k].on THEN appended[k - 1]
                    ELSE IF es[k].unique THEN AppendUniqueFlag(appended[k - 1], es[k].flag)
                    ELSE Append(appended[k - 1], es[k].flag)
            IN  appended[Len(es)]
    IN  CHOOSE all \in { Appended(fs, es) : fs \in {flags}, es \in {entries} } : TRUE

\* The report without policy_excerpt and vision_notes, which copy document text.
AnalyzeDocuments(input) ==
    LET structured_rejection == input.structured_rejection
        global_reasoning == input.global_reasoning
        reason_text ==
            ExtractRejectionReason(input.rejection_text,
                                   [rejection_reason |-> OrEmpty(structured_rejection.rejection_reason)])
        finding == EvaluateContestability(reason_text, input.diagnosis, input.bill_items)
        clause_id == StrippedOrEmpty(structured_rejection.clause_id)
        clause_text == StrippedOrEmpty(structured_rejection.clause_text)
        policy_clause_excerpt == StrippedOrEmpty(structured_rejection.policy_clause_excerpt)
        is_clause_present_in_policy == Truthy(structured_rejection.is_clause_present_in_policy)
        cited_reference == IF Len(clause_id) > 0 THEN Str(clause_id) ELSE None
        \* lines 698-704
        ghost_rejection ==
            GhostRejection(clause_id, is_clause_present_in_policy,
                           Truthy(structured_rejection.ghost_rejection))
        \* lines 720-734
        clinical_distinction_invalid == Truthy(global_reasoning.clinical_distinction_invalid)
        clinical_reason == StrippedOrEmpty(global_reasoning.clinical_distinction_reason)
        \* lines 736-747
        constructive_knowledge ==
            ConstructiveKnowledge(input.medication_cross_reference, global_reasoning)
        medication_reason == StrippedOrEmpty(input.medication_cross_reference.reason)
        constructive_reason ==
            IF Len(medication_reason) > 0 THEN medication_reason
            ELSE StrippedOrEmpty(global_reasoning.constructive_knowledge_reason)
        medication_cross_reference ==
            IF constructive_knowledge
            THEN [ constructive_knowledge |-> PyBool(TRUE),
                   reason |-> Str(constructive_reason) ]
            ELSE input.medication_cross_reference
        \* lines 749-750
        statutory_primacy_override == Truthy(global_reasoning.statutory_primacy_override)
        statutory_reason == StrippedOrEmpty(global_reasoning.statutory_primacy_reason)
        \* lines 752-757
        ghost_cited == Len(clause_id) > 0 /\ ~is_clause_present_in_policy
        \* lines 758-773
        present_clause_void ==
            /\ Len(clause_id) > 0 /\ is_clause_present_in_policy
            /\ OverrideOfPresentClause(policy_clause_excerpt, reason_text,
                                       statutory_primacy_override)
        uncited_clause_void ==
            /\ ~(Len(clause_id) > 0 /\ is_clause_present_in_policy)
            /\ statutory_primacy_override
        irdai_override_applies == present_clause_void \/ uncited_clause_void
        conflict_note ==
            IF present_clause_void THEN Flag(VoidClauseTemplate, clause_id)
            ELSE IF uncited_clause_void THEN Flag(VoidCitedClauseNote, <<>>)
            ELSE NoNote
        contestable ==
            \/ finding.contestable
            \/ clinical_distinction_invalid
            \/ constructive_knowledge
            \/ ghost_cited
            \/ irdai_override_applies
        extraction_json ==
            [ clause_id |-> clause_id,
              clause_text |-> clause_text,
              ghost_rejection |-> ghost_rejection ]
        \* lines 782-803
        claim_date_value ==
            IF input.claim_submission_date.kind = "none" THEN input.parsed_claim
            ELSE input.claim_submission_date
        rejection_date_value ==
            IF input.rejection_date.kind = "none" THEN input.parsed_rejection
            ELSE input.rejection_date
        both_dates == claim_date_value.kind # "none" /\ rejection_date_value.kind # "none"
        checked ==
            IF both_dates
            THEN CheckIrdai2017ResponseTimeCompliance(claim_date_value, rejection_date_value)
            ELSE Returned(ComplianceUnknown)
        flags ==
            AppendFlags(finding.flags,
              << [ on |-> Len(clause_id) = 0 /\ ghost_rejection, unique |-> TRUE,
                   flag |-> Flag(AnchorMissingFlag, <<>>) ],
                 [ on |-> clinical_distinction_invalid, unique |-> TRUE,
                   flag |-> IF Len(clinical_reason) > 0
                            THEN Flag(ClinicalDistinctionTemplate, clinical_reason)
                            ELSE Flag(ClinicalDistinctionDefault, <<>>) ],
                 [ on |-> constructive_knowledge /\ Len(constructive_reason) > 0,
                   unique |-> TRUE,
                   flag |-> Flag(ConstructiveKnowledgeTemplate, constructive_reason) ],
                 [ on |-> ghost_cited, unique |-> TRUE,
                   flag |-> Flag(GhostRejectionTemplate, clause_id) ],
                 [ on |-> irdai_override_applies, unique |-> TRUE,
                   flag |-> conflict_note ],
                 [ on |-> Len(statutory_reason) > 0, unique |-> TRUE,
                   flag |-> Flag(StatutoryPrimacyTemplate, statutory_reason) ],
                 [ on |-> /\ both_dates
                          /\ checked.status = "returned"
                          /\ checked.value.violation_15_day_rule,
                   unique |-> FALSE,
                   flag |-> Flag(ResponseTimelineFlag, <<>>) ] >>)
    IN  IF checked.status = "raised" THEN Raised(checked.error)
        ELSE Returned(
          [ rejection_reason |-> finding.rejection_reason,
            diagnosis_summary |-> finding.diagnosis_summary,
            contestable |-> contestable,
            flags |-> flags,
            bill_items |-> finding.bill_items,
            response_time_compliance |-> checked.value,
            constructive_knowledge_note |->
                IF constructive_knowledge THEN CONSTRUCTIVE_KNOWLEDGE_LEGAL_NOTE ELSE "",
            medication_cross_reference |-> medication_cross_reference,
            global_reasoning |-> global_reasoning,
            clause_extraction |-> extraction_json,
            forensic_validation |->
              [ extraction_json |-> extraction_json,
                cited_clause_or_exclusion |-> cited_reference,
                clause_id |-> clause_id,
                clause_identifier |-> clause_id,
                clause_text |-> clause_text,
                is_clause_present_in_policy |-> is_clause_present_in_policy,
                clause_found_in_policy |-> is_clause_present_in_policy,
                ghost_rejection |-> ghost_rejection,
                policy_clause_excerpt |-> policy_clause_excerpt,
                irdai_override_applies |-> irdai_override_applies,
                conflict_note |-> conflict_note,
                regulatory_reference |->
                    IF irdai_override_applies THEN Text(IRDAI_MORATORIUM_CITATION)
                    ELSE NoText ] ])

(***************************************************************************)
(* Inputs of the calls.                                                    *)
(***************************************************************************)
StartDays == {1, 2, 10, 31}

AsOfDays == {1, 2, 17, 30}

StartYears == {2015, 2018, 2020} \cup (2024..MaxStartYear)

AsOfYears == {2015, 2024, 2026} \cup (2029..MaxYear)

DatesOf(years, days) ==
    { [year |-> t[1], month |-> t[2], day |-> t[3]] :
        t \in { u \in years \X (1..MaxMonth) \X days : IsValidDate(u[1], u[2], u[3]) } }

StartDates == DatesOf(StartYears, StartDays)

AsOfDates == DatesOf(AsOfYears, AsOfDays)

\* date.today() when the call is made: a day of the year the code was written in.
TodayDates == {d \in AsOfDates : d.year = 2026}

UnparsableStrings ==
    { <<"2", "0", "2", "4", "-", "0", "2", "-", "3", "0">>,
      <<"3", "1", "/", "0", "3", "/", "2", "0", "2", "4">> }

\* Date strings with surrounding whitespace, and the empty string.
PaddedStrings ==
    { <<" ", "2", "0", "2", "4", "-", "0", "4", "-", "0", "1">>,
      <<"2", "0", "2", "9", "-", "0", "4", "-", "0", "1", " ">> }

EmptyString == <<>>

\* date and datetime objects given in place of ISO strings.
DateObjects(d) == {DateValue(d), DatetimeValue(d, 0), DatetimeValue(d, 23)}

StartInputs ==
    {Str(IsoFormat(d)) : d \in StartDates}
        \cup {Str(u) : u \in UnparsableStrings \cup PaddedStrings \cup {EmptyString}}
        \cup DateObjects([year |-> 2024, month |-> 4, day |-> 1])

AsOfInputs ==
    {Str(IsoFormat(d)) : d \in AsOfDates}
        \cup {Str(u) : u \in UnparsableStrings \cup PaddedStrings \cup {EmptyString}}
        \cup DateObjects([year |-> 2029, month |-> 4, day |-> 1])
        \cup {None}

\* policy_age_years, counted in tenths of a year.
PolicyAges == 0..MaxAgeTenths

NoArgs == <<>>

Reasons ==
    { <<"N", "o", "n", "-", "d", "i", "s", "c", "l", "o", "s", "u", "r", "e", " ", "o", "f", " ", "P", "E", "D">>,
      <<"H", "i", "d", "d", "e", "n", " ", "B", "P">>,
      <<"R", "o", "o", "m", " ", "r", "e", "n", "t", " ", "c", "a", "p">>,
      <<"h", "i", "d", "d", "e", "n", " ", "b", "p">>,
      <<"E", "x", "p", "e", "d", "i", "t", "e", "d">>,
      <<"N", "o", "n", " ", "d", "i", "s", "c", "l", "o", "s", "u", "r", "e">> }

NoReason == <<>>

(***************************************************************************)
(* The caller: one call at a time, then the result is consumed.            *)
(***************************************************************************)
(***************************************************************************)
(* Inputs of the evidence matcher calls.                                   *)
(***************************************************************************)
\* Rejection dates run over the first days of January 2026.
MaxRejectionDay == 17

ClaimDates == { [year |-> 2025, month |-> 12, day |-> 20],
                [year |-> 2026, month |-> 1, day |-> 1],
                [year |-> 2026, month |-> 1, day |-> 10] }

RejectionDates ==
    { [year |-> 2026, month |-> 1, day |-> d] : d \in 1..MaxRejectionDay }
        \cup { [year |-> 2026, month |-> 3, day |-> 1],
               [year |-> 2024, month |-> 2, day |-> 28] }

\* 16 January 2026 written in the other ways that _coerce_to_date accepts.
SixteenthOfJanuaryTexts ==
    { <<"1", "6", "-", "0", "1", "-", "2", "0", "2", "6">>,
      <<"1", "6", "/", "0", "1", "/", "2", "0", "2", "6">>,
      <<"1", "6", " ", "J", "a", "n", "u", "a", "r", "y", " ", "2", "0", "2", "6">>,
      <<"1", "6", " ", "J", "a", "n", " ", "2", "0", "2", "6">>,
      <<"J", "a", "n", "u", "a", "r", "y", " ", "1", "6", ",", " ", "2", "0", "2", "6">>,
      <<"J", "a", "n", " ", "1", "6", ",", " ", "2", "0", "2", "6">>,
      <<" ", "2", "0", "2", "6", "-", "0", "1", "-", "1", "6", " ">> }

UncoercibleTexts == { <<"2", "0", "2", "6", "-", "1", "3", "-", "0", "1">>, <<>> }

SubmissionInputs ==
    { Str(IsoFormat(d)) : d \in ClaimDates }
        \cup { DateValue(d) : d \in ClaimDates }
        \cup { Str(t) : t \in UncoercibleTexts }

RejectionInputs ==
    { Str(IsoFormat(d)) : d \in RejectionDates }
        \cup { DatetimeValue(d, 9) : d \in RejectionDates }
        \cup { Str(t) : t \in SixteenthOfJanuaryTexts \cup UncoercibleTexts }

\* Answers of the extraction model, field by field.
ParsedClauseIds == { None, Str(<<>>), Str(<<" ", " ">>), Str(<<"C", "l", "a", "u", "s", "e", " ", " ", "9", ".", "9">>), Str(<<" ", "C", "l", "a", "u", "s", "e", " ", "4", ".", "1">>) }

ParsedPresence == { None, PyBool(TRUE), PyBool(FALSE), Str(<<"y", "e", "s">>), Str(<<"N", "o">>), Str(<<" ", "T", "R", "U", "E", " ">>) }

ParsedGhostHints == { None, PyBool(TRUE), PyBool(FALSE), Str(<<"t", "r", "u", "e">>), Str(<<"0">>) }

ParsedReasons == { None, Str(<<"N", "o", "n", "-", "d", "i", "s", "c", "l", "o", "s", "u", "r", "e", " ", "o", "f", " ", "P", "E", "D">>) }

ClauseText == <<"a", "s", " ", "p", "e", "r", " ", "C", "l", "a", "u", "s", "e", " ", "4", ".", "1">>

LegacyExcerpt == <<"C", "l", "a", "u", "s", "e", " ", "4", ".", "1", ":", " ", "r", "e", "p", "u", "d", "i", "a", "t", "i", "o", "n", " ", "a", "l", "l", "o", "w", "e", "d", " ", "w", "i", "t", "h", "i", "n", " ", "8", " ", "y", "e", "a", "r", "s", " ", "f", "o", "r", " ", "n", "o", "n", "-", "d", "i", "s", "c", "l", "o", "s", "u", "r", "e", ".">>

WaitingPeriodExcerpt == <<"W", "a", "i", "t", "i", "n", "g", " ", "p", "e", "r", "i", "o", "d", " ", "o", "f", " ", "8", " ", "y", "e", "a", "r", "s", " ", "a", "p", "p", "l", "i", "e", "s">>

\* What analyze_documents receives from the extraction step (or its stub).
StructuredClauseIds == { Str(<<>>), Str(<<"C", "l", "a", "u", "s", "e", " ", "9", ".", "9">>), Str(<<" ", "C", "l", "a", "u", "s", "e", " ", "4", ".", "1", " ">>) }

StructuredPresence == { None, PyBool(TRUE), PyBool(FALSE) }

StructuredExcerpts == { Str(LegacyExcerpt), Str(WaitingPeriodExcerpt) }

StructuredReasons == { Str(<<>>), Str(<<"N", "o", "n", "-", "d", "i", "s", "c", "l", "o", "s", "u", "r", "e", " ", "o", "f", " ", "P", "E", "D">>), Str(<<"N", "o", "n", "-", "m", "e", "d", "i", "c", "a", "l", " ", "e", "x", "p", "e", "n", "s", "e">>) }

StructuredRejections ==
    { [ clause_id |-> c,
        clause_text |-> Str(ClauseText),
        policy_clause_excerpt |-> e,
        is_clause_present_in_policy |-> p,
        ghost_rejection |-> PyBool(g),
        rejection_reason |-> r ] :
      c \in StructuredClauseIds, e \in StructuredExcerpts, p \in StructuredPresence,
      g \in BOOLEAN, r \in StructuredReasons }

RejectionLetterText == <<"C", "l", "a", "i", "m", " ", "r", "e", "j", "e", "c", "t", "e", "d", ":", "\n", " ", "p", "r", "e", "-", "e", "x", "i", "s", "t", "i", "n", "g", " ", "d", "i", "s", "e", "a", "s", "e">>

Diagnoses == { <<"A", "c", "u", "t", "e", " ", "a", "p", "p", "e", "n", "d", "i", "c", "i", "t", "i", "s">>, <<"C", "h", "r", "o", "n", "i", "c", " ", "h", "y", "p", "e", "r", "t", "e", "n", "s", "i", "o", "n">> }

BillItems ==
    << [ description |-> <<"S", "u", "r", "g", "e", "r", "y", " ", "c", "o", "n", "s", "u", "m", "a", "b", "l", "e", "s", " ", "k", "i", "t">>,
         category |-> <<"C", "o", "n", "s", "u", "m", "a", "b", "l", "e", "s">> ] >>

MedicationCrossReferences ==
    { [ constructive_knowledge |-> PyBool(FALSE), reason |-> None ],
      [ constructive_knowledge |-> PyBool(FALSE), reason |-> Str(<<"n", "o", "n", "e", " ">>) ],
      [ constructive_knowledge |-> PyBool(TRUE), reason |-> Str(<<"T", "e", "l", "m", "i", "s", "a", "r", "t", "a", "n", " ", "d", "i", "s", "c", "l", "o", "s", "e", "d">>) ] }

ClinicalAnswers ==
    { [ invalid |-> PyBool(FALSE), reason |-> None ],
      [ invalid |-> PyBool(TRUE), reason |-> Str(<<"a", "c", "u", "t", "e", " ", "o", "n", "s", "e", "t">>) ] }

StatutoryAnswers ==
    { [ override |-> PyBool(FALSE), reason |-> None ],
      [ override |-> PyBool(TRUE), reason |-> None ],
      [ override |-> PyBool(TRUE), reason |-> Str(<<"I", "R", "D", "A", "I", " ", "c", "i", "r", "c", "u", "l", "a", "r", " ", "p", "r", "e", "v", "a", "i", "l", "s">>) ] }

ConstructiveAnswers ==
    { [ known |-> PyBool(FALSE), reason |-> None ],
      [ known |-> PyBool(TRUE), reason |-> Str(<<" ", "P", "r", "o", "p", "o", "s", "a", "l", " ", "l", "i", "s", "t", "s", " ", "T", "e", "l", "m", "i", "s", "a", "r", "t", "a", "n">>) ] }

GlobalReasonings ==
    { [ clinical_distinction_invalid |-> c.invalid,
        clinical_distinction_reason |-> c.reason,
        constructive_knowledge |-> k.known,
        constructive_knowledge_reason |-> k.reason,
        statutory_primacy_override |-> t.override,
        statutory_primacy_reason |-> t.reason ] :
      c \in ClinicalAnswers, k \in ConstructiveAnswers, t \in StatutoryAnswers }

\* The dates given by the caller and the dates found in the rejection letter.
DateEvidence ==
    { [ claim_submission_date |-> None, rejection_date |-> None,
        parsed_claim |-> None, parsed_rejection |-> None ],
      [ claim_submission_date |-> Str(<<"2", "0", "2", "6", "-", "0", "1", "-", "0", "1">>),
        rejection_date |-> Str(<<"2", "0", "2", "6", "-", "0", "1", "-", "2", "0">>),
        parsed_claim |-> None, parsed_rejection |-> None ],
      [ claim_submission_date |-> None, rejection_date |-> None,
        parsed_claim |-> DateValue([year |-> 2026, month |-> 1, day |-> 1]),
        parsed_rejection |-> DateValue([year |-> 2026, month |-> 1, day |-> 10]) ] }

\* No function has been called.
NoCall ==
    /\ fn = "none"
    /\ policy_start_date = None
    /\ as_of_date = None
    /\ rejection_reason = NoReason
    /\ alleged_fraud = FALSE
    /\ args = NoArgs
    /\ result = [status |-> "none"]

\* No workflow has run and no chat session exists.
NoService ==
    /\ clock = MORATORIUM_SWITCH_DATE
    /\ state = <<>>
    /\ checkpoints = <<>>
    /\ executed = <<>>
    /\ chat_sessions = <<>>

Init ==
    /\ pc = "idle"
    /\ NoCall
    /\ NoService

\* The clock is read only when the as-of argument is falsy.
ClockReadings(as_of_value) ==
    IF Truthy(as_of_value) THEN {MORATORIUM_SWITCH_DATE} ELSE TodayDates

CallCheckMoratoriumEligibility ==
    /\ pc = "idle"
    /\ \E s \in StartInputs, a \in AsOfInputs :
         \E today \in ClockReadings(a) :
            /\ fn' = "check_moratorium_eligibility"
            /\ policy_start_date' = s
            /\ as_of_date' = a
            /\ result' = CheckMoratoriumEligibility(s, a, today)
    /\ pc' = "returned"
    /\ UNCHANGED <<rejection_reason, alleged_fraud, args>>
    /\ UNCHANGED service_vars

CallShouldOverrideNondisclosureRejection ==
    /\ pc = "idle"
    /\ \E s \in StartInputs, a \in AsOfInputs, r \in Reasons, f \in BOOLEAN :
         \E today \in ClockReadings(a) :
            /\ fn' = "should_override_nondisclosure_rejection"
            /\ policy_start_date' = s
            /\ as_of_date' = a
            /\ rejection_reason' = r
            /\ alleged_fraud' = f
            /\ result' = ShouldOverrideNondisclosureRejection(s, r, a, f, today)
    /\ pc' = "returned"
    /\ UNCHANGED args
    /\ UNCHANGED service_vars

CallMoratoriumRuleCheck ==
    /\ pc = "idle"
    /\ \E age \in PolicyAges, r \in Reasons, f \in BOOLEAN :
            /\ fn' = "moratorium_rule_check"
            /\ args' = [policy_age_years |-> age]
            /\ rejection_reason' = r
            /\ alleged_fraud' = f
            /\ result' = Returned(MoratoriumRuleCheck(age, r, f))
    /\ pc' = "returned"
    /\ UNCHANGED <<policy_start_date, as_of_date>>
    /\ UNCHANGED service_vars

Return ==
    /\ pc = "returned"
    /\ pc' = "idle"
    /\ fn' = "none"
    /\ policy_start_date' = None
    /\ as_of_date' = None
    /\ rejection_reason' = NoReason
    /\ alleged_fraud' = FALSE
    /\ args' = NoArgs
    /\ result' = [status |-> "none"]
    /\ UNCHANGED service_vars

Next ==
    \/ CallCheckMoratoriumEligibility
    \/ CallShouldOverrideNondisclosureRejection
    \/ CallMoratoriumRuleCheck
    \/ Return

Spec == Init /\ [][Next]_vars

CallCheckIrdai2017ResponseTimeCompliance ==
    /\ pc = "idle"
    /\ \E submitted \in SubmissionInputs, rejected \in RejectionInputs :
            /\ fn' = "check_irdai_2017_response_time_compliance"
            /\ args' = [claim_submission_date |-> submitted, rejection_date |-> rejected]
            /\ result' = CheckIrdai2017ResponseTimeCompliance(submitted, rejected)
    /\ pc' = "returned"
    /\ UNCHANGED <<policy_start_date, as_of_date, rejection_reason, alleged_fraud>>
    /\ UNCHANGED service_vars

CallExtractRejectionStructureWithLlm ==
    /\ pc = "idle"
    /\ \E llm_configured \in BOOLEAN, c \in ParsedClauseIds, p \in ParsedPresence,
          g \in ParsedGhostHints, r \in ParsedReasons :
            LET parsed == [ clause_id |-> c,
                            clause_text |-> Str(ClauseText),
                            policy_clause_excerpt |-> Str(LegacyExcerpt),
                            is_clause_present_in_policy |-> p,
                            ghost_rejection |-> g,
                            rejection_reason |-> r ]
            IN  /\ fn' = "_extract_rejection_structure_with_llm"
                /\ args' = [llm_configured |-> llm_configured, parsed |-> parsed]
                /\ result' = Returned(ExtractRejectionStructureWithLlm(llm_configured, parsed))
    /\ pc' = "returned"
    /\ UNCHANGED <<policy_start_date, as_of_date, rejection_reason, alleged_fraud>>
    /\ UNCHANGED service_vars

CallAnalyzeDocuments ==
    /\ pc = "idle"
    /\ \E s \in StructuredRejections, m \in MedicationCrossReferences,
          g \in GlobalReasonings, d \in DateEvidence, diagnosis \in Diagnoses :
            LET input == [ structured_rejection |-> s,
                           medication_cross_reference |-> m,
                           global_reasoning |-> g,
                           rejection_text |-> RejectionLetterText,
                           diagnosis |-> diagnosis,
                           bill_items |-> BillItems,
                           claim_submission_date |-> d.claim_submission_date,
                           rejection_date |-> d.rejection_date,
                           parsed_claim |-> d.parsed_claim,
                           parsed_rejection |-> d.parsed_rejection ]
            IN  /\ fn' = "analyze_documents"
                /\ args' = input
                /\ result' = AnalyzeDocuments(input)
    /\ pc' = "returned"
    /\ UNCHANGED <<policy_start_date, as_of_date, rejection_reason, alleged_fraud>>
    /\ UNCHANGED service_vars

NextEvidence ==
    \/ CallCheckIrdai2017ResponseTimeCompliance
    \/ CallExtractRejectionStructureWithLlm
    \/ CallAnalyzeDocuments
    \/ Return

SpecEvidence == Init /\ [][NextEvidence]_vars

(***************************************************************************)
(* Concurrent evaluations of the moratorium engine.  Every thread runs one *)
(* call, statement by statement; pc[t] is the line the thread is about to  *)
(* execute and args[t] holds the local variables of its call.  The other   *)
(* variables hold, per thread, the arguments and the result of the call.   *)
(***************************************************************************)
NumThreads == 2

Threads == 1..NumThreads

\* A local variable that has not been assigned yet.
Unbound == [status |-> "unbound"]

BlankFrame ==
    [ policy_age_years |-> 0,
      policy_start |-> Unbound,
      current |-> Unbound,
      rule |-> Unbound,
      age_months |-> Unbound,
      moratorium |-> Unbound,
      is_nondisclosure |-> Unbound,
      override |-> Unbound,
      nondisclosure_dispute |-> Unbound,
      moratorium_applies |-> Unbound,
      illegal_rejection |-> Unbound ]

\* The calls a thread may make; every call gives its as-of date.
ConcurrentCalls ==
    { [ fn |-> "check_moratorium_eligibility",
        policy_start_date |-> Str(<<"2", "0", "2", "4", "-", "0", "4", "-", "0", "1">>), as_of_date |-> Str(<<"2", "0", "2", "9", "-", "0", "4", "-", "0", "1">>),
        rejection_reason |-> NoReason, alleged_fraud |-> FALSE, policy_age_years |-> 0 ],
      [ fn |-> "check_moratorium_eligibility",
        policy_start_date |-> Str(<<"2", "0", "2", "4", "-", "0", "2", "-", "3", "0">>), as_of_date |-> Str(<<"2", "0", "2", "9", "-", "0", "4", "-", "0", "1">>),
        rejection_reason |-> NoReason, alleged_fraud |-> FALSE, policy_age_years |-> 0 ],
      [ fn |-> "should_override_nondisclosure_rejection",
        policy_start_date |-> Str(<<"2", "0", "1", "5", "-", "0", "5", "-", "1", "0">>), as_of_date |-> Str(<<"2", "0", "2", "6", "-", "0", "1", "-", "1", "7">>),
        rejection_reason |-> <<"H", "i", "d", "d", "e", "n", " ", "B", "P">>, alleged_fraud |-> FALSE, policy_age_years |-> 0 ],
      [ fn |-> "should_override_nondisclosure_rejection",
        policy_start_date |-> Str(<<"2", "0", "2", "0", "-", "0", "1", "-", "0", "1">>), as_of_date |-> Str(<<"2", "0", "2", "4", "-", "0", "1", "-", "0", "1">>),
        rejection_reason |-> <<"N", "o", "n", "-", "d", "i", "s", "c", "l", "o", "s", "u", "r", "e", " ", "o", "f", " ", "P", "E", "D">>, alleged_fraud |-> TRUE, policy_age_years |-> 0 ],
      [ fn |-> "moratorium_rule_check",
        policy_start_date |-> None, as_of_date |-> None,
        rejection_reason |-> <<"N", "o", "n", " ", "d", "i", "s", "c", "l", "o", "s", "u", "r", "e">>, alleged_fraud |-> FALSE, policy_age_years |-> 51 ] }

InitConcurrent ==
    /\ pc = [t \in Threads |-> "idle"]
    /\ fn = [t \in Threads |-> "none"]
    /\ policy_start_date = [t \in Threads |-> None]
    /\ as_of_date = [t \in Threads |-> None]
    /\ rejection_reason = [t \in Threads |-> NoReason]
    /\ alleged_fraud = [t \in Threads |-> FALSE]
    /\ args = [t \in Threads |-> BlankFrame]
    /\ result = [t \in Threads |-> [status |-> "none"]]
    /\ NoService

\* Faulty variant: the moratorium check is kept in one slot that the calls share.
MoratoriumOf_SharedSlot(frames, t) ==
    frames[CHOOSE u \in DOMAIN frames : frames[u].moratorium # Unbound].moratorium

\* The local variable moratorium of the call of thread t (rules.py lines 87-90).
MoratoriumOf(frames, t) == frames[t].moratorium

\* The thread moves to the given line and binds one local variable.
Bind(t, line, frame) ==
    /\ pc' = [pc EXCEPT ![t] = line]
    /\ args' = [args EXCEPT ![t] = frame]
    /\ UNCHANGED <<fn, policy_start_date, as_of_date, rejection_reason, alleged_fraud, result>>
    /\ UNCHANGED service_vars

\* The call of the thread ends with the given outcome.
Finish(t, outcome) ==
    /\ pc' = [pc EXCEPT ![t] = "returned"]
    /\ result' = [result EXCEPT ![t] = outcome]
    /\ UNCHANGED <<fn, policy_start_date, as_of_date, rejection_reason, alleged_fraud, args>>
    /\ UNCHANGED service_vars

CallConcurrently(t) ==
    /\ pc[t] = "idle"
    /\ \E call \in ConcurrentCalls :
            /\ fn' = [fn EXCEPT ![t] = call.fn]
            /\ policy_start_date' = [policy_start_date EXCEPT ![t] = call.policy_start_date]
            /\ as_of_date' = [as_of_date EXCEPT ![t] = call.as_of_date]
            /\ rejection_reason' = [rejection_reason EXCEPT ![t] = call.rejection_reason]
            /\ alleged_fraud' = [alleged_fraud EXCEPT ![t] = call.alleged_fraud]
            /\ args' = [args EXCEPT ![t] =
                           [BlankFrame EXCEPT !.policy_age_years = call.policy_age_years]]
            /\ pc' = [pc EXCEPT ![t] =
                         IF call.fn = "moratorium_rule_check" THEN "legal_rag_18"
                         ELSE "rules_44"]
    /\ UNCHANGED result
    /\ UNCHANGED service_vars

\* rules.py line 44
ParsePolicyStart(t) ==
    /\ pc[t] = "rules_44"
    /\ LET parsed == ToDate(policy_start_date[t])
       IN  IF parsed.ok
           THEN Bind(t, "rules_45", [args[t] EXCEPT !.policy_start = parsed.date])
           ELSE Finish(t, Raised(parsed.error))

\* rules.py line 45, with the as-of date given
ParseAsOf(t) ==
    /\ pc[t] = "rules_45"
    /\ Truthy(as_of_date[t])
    /\ LET parsed == ToDate(as_of_date[t])
       IN  IF parsed.ok
           THEN Bind(t, "rules_47", [args[t] EXCEPT !.current = parsed.date])
           ELSE Finish(t, Raised(parsed.error))

\* rules.py lines 47-52
SelectWindow(t) ==
    /\ pc[t] = "rules_47"
    /\ Bind(t, "rules_54", [args[t] EXCEPT !.rule = SelectRule(args[t].policy_start)])

\* rules.py line 54
ComputeAge(t) ==
    /\ pc[t] = "rules_54"
    /\ Bind(t, "rules_55",
            [args[t] EXCEPT !.age_months = MonthsBetween(args[t].policy_start, args[t].current)])

\* rules.py lines 55-63: the check returns, to the caller or into line 87.
ReturnMoratoriumCheck(t) ==
    /\ pc[t] = "rules_55"
    /\ LET moratorium == MoratoriumCheck(args[t].policy_start, args[t].current,
                                         args[t].age_months, args[t].rule)
       IN  IF fn[t] = "check_moratorium_eligibility"
           THEN Finish(t, Returned(moratorium))
           ELSE Bind(t, "rules_91", [args[t] EXCEPT !.moratorium = moratorium])

\* rules.py lines 91-102
ClassifyReason(t) ==
    /\ pc[t] = "rules_91"
    /\ Bind(t, "rules_103",
            [args[t] EXCEPT !.is_nondisclosure = IsNondisclosure(rejection_reason[t])])

\* rules.py lines 103-107
DecideOverride(t) ==
    /\ pc[t] = "rules_103"
    /\ Bind(t, "rules_109",
            [args[t] EXCEPT !.override =
                Override(MoratoriumOf(args, t).eligible_for_moratorium_protection,
                         args[t].is_nondisclosure, alleged_fraud[t])])

\* rules.py lines 109-128
ReturnDecision(t) ==
    /\ pc[t] = "rules_109"
    /\ Finish(t, Returned([ moratorium |-> MoratoriumOf(args, t),
                            rejection_reason |-> rejection_reason[t],
                            alleged_fraud |-> alleged_fraud[t],
                            is_nondisclosure_rejection |-> args[t].is_nondisclosure,
                            override_nondisclosure_rejection |-> args[t].override,
                            decision_reason |->
                                DecisionReason(args[t].override, args[t].is_nondisclosure,
                                               alleged_fraud[t]) ]))

\* legal_rag.py lines 18-28
ClassifyDispute(t) ==
    /\ pc[t] = "legal_rag_18"
    /\ Bind(t, "legal_rag_29",
            [args[t] EXCEPT !.nondisclosure_dispute = NondisclosureDispute(rejection_reason[t])])

\* legal_rag.py line 29
CompareAge(t) ==
    /\ pc[t] = "legal_rag_29"
    /\ Bind(t, "legal_rag_30",
            [args[t] EXCEPT !.moratorium_applies = MoratoriumApplies(args[t].policy_age_years)])

\* legal_rag.py line 30
DecideIllegal(t) ==
    /\ pc[t] = "legal_rag_30"
    /\ Bind(t, "legal_rag_32",
            [args[t] EXCEPT !.illegal_rejection =
                /\ args[t].moratorium_applies
                /\ args[t].nondisclosure_dispute
                /\ ~alleged_fraud[t]])

\* legal_rag.py lines 32-54
ReturnRuleCheck(t) ==
    /\ pc[t] = "legal_rag_32"
    /\ Finish(t, Returned([ moratorium_applies |-> args[t].moratorium_applies,
                            illegal_rejection |-> args[t].illegal_rejection,
                            legal_basis |-> LegalBasis,
                            recommended_action |->
                                IF args[t].illegal_rejection THEN DemandReversalAction
                                ELSE RequestBasisAction ]))

NextConcurrent ==
    \E t \in Threads :
        \/ CallConcurrently(t)
        \/ ParsePolicyStart(t)
        \/ ParseAsOf(t)
        \/ SelectWindow(t)
        \/ ComputeAge(t)
        \/ ReturnMoratoriumCheck(t)
        \/ ClassifyReason(t)
        \/ DecideOverride(t)
        \/ ReturnDecision(t)
        \/ ClassifyDispute(t)
        \/ CompareAge(t)
        \/ DecideIllegal(t)
        \/ ReturnRuleCheck(t)

SpecConcurrent == InitConcurrent /\ [][NextConcurrent]_vars

(***************************************************************************)
(* The command check-moratorium-date (cli.py) and                          *)
(* calculate_moratorium_status (claimclaw/rules.py).  Each evaluates the   *)
(* moratorium directly and then again inside                               *)
(* should_override_nondisclosure_rejection; when the as-of date is falsy   *)
(* each evaluation reads the system clock, which runs on its own.          *)
(***************************************************************************)
MaxClockDay == 18

\* The days the system clock shows: mid-January 2026.
ClockDates == { [year |-> 2026, month |-> 1, day |-> d] : d \in 15..MaxClockDay }

NextDay(d) ==
    IF d.day < DaysInMonth(d.year, d.month) THEN [d EXCEPT !.day = d.day + 1]
    ELSE IF d.month < 12 THEN [d EXCEPT !.month = d.month + 1, !.day = 1]
    ELSE [year |-> d.year + 1, month |-> 1, day |-> 1]

PayloadStarts ==
    { Str(<<"2", "0", "1", "8", "-", "0", "1", "-", "1", "7">>),
      Str(<<"2", "0", "2", "4", "-", "0", "4", "-", "0", "1">>),
      Str(<<"2", "0", "1", "5", "-", "0", "1", "-", "1", "0">>),
      Str(<<"3", "1", "/", "0", "3", "/", "2", "0", "2", "4">>) }

PayloadAsOfs ==
    { None,
      Str(EmptyString),
      Str(<<"2", "0", "2", "6", "-", "0", "1", "-", "1", "6">>),
      Str(<<"2", "0", "2", "6", "-", "0", "1", "-", "1", "7">>) }

PayloadReasons ==
    { <<"N", "o", "n", "-", "d", "i", "s", "c", "l", "o", "s", "u", "r", "e", " ", "o", "f", " ", "P", "E", "D">>,
      <<"R", "o", "o", "m", " ", "r", "e", "n", "t", " ", "c", "a", "p">> }

InitPayload ==
    /\ pc = "idle"
    /\ NoCall
    /\ clock \in ClockDates
    /\ state = <<>>
    /\ checkpoints = <<>>
    /\ executed = <<>>
    /\ chat_sessions = <<>>

\* The system clock passes midnight.
ClockAdvances ==
    /\ clock.day < MaxClockDay
    /\ clock' = NextDay(clock)
    /\ UNCHANGED <<pc, call_vars, state, checkpoints, executed, chat_sessions>>

\* cli.py line 196 and rules.py line 12: the command or the function is
\* entered with its arguments.
EnterPayloadCall ==
    /\ pc = "idle"
    /\ \E command \in {"check-moratorium-date", "calculate_moratorium_status"},
          s \in PayloadStarts, a \in PayloadAsOfs, r \in PayloadReasons, f \in BOOLEAN :
            /\ fn' = command
            /\ policy_start_date' = s
            /\ as_of_date' = a
            /\ rejection_reason' = r
            /\ alleged_fraud' = f
    /\ pc' = "evaluate_directly"
    /\ UNCHANGED <<args, result, service_vars>>

\* cli.py lines 197-200, rules.py lines 18-21: the direct evaluation, which
\* reads the clock when the as-of date is falsy.
EvaluateDirectly ==
    /\ pc = "evaluate_directly"
    /\ LET base == CheckMoratoriumEligibility(policy_start_date, as_of_date, clock)
       IN  IF base.status = "raised"
           THEN /\ result' = base
                /\ pc' = "returned"
                /\ UNCHANGED args
           ELSE /\ args' = [base |-> base.value]
                /\ pc' = "evaluate_in_override"
                /\ UNCHANGED result
    /\ UNCHANGED <<fn, policy_start_date, as_of_date, rejection_reason, alleged_fraud,
                   service_vars>>

\* cli.py lines 207-212: the printed payload.
PrintedPayload(base, decision) ==
    [ moratorium |-> base, override_decision |-> decision ]

\* rules.py lines 28-38: the returned status.
MoratoriumStatus(moratorium, decision) ==
    [ policy_start_date |-> moratorium.policy_start_date,
      claim_date |-> moratorium.as_of_date,
      required_years |-> moratorium.applicable_moratorium_months \div 12,
      required_months |-> moratorium.applicable_moratorium_months,
      policy_age_months |-> moratorium.policy_age_months,
      eligible_for_moratorium_protection |-> moratorium.eligible_for_moratorium_protection,
      statutory_override |-> decision.override_nondisclosure_rejection,
      rule_applied |-> moratorium.rule_applied,
      decision_reason |-> decision.decision_reason ]

\* cli.py lines 201-212, rules.py lines 22-38: the evaluation inside
\* should_override_nondisclosure_rejection, which reads the clock again, and
\* the payload built from both.
EvaluateInOverride ==
    /\ pc = "evaluate_in_override"
    /\ LET decision == ShouldOverrideNondisclosureRejection(
                           policy_start_date, rejection_reason, as_of_date,
                           alleged_fraud, clock)
       IN  result' = IF decision.status = "raised" THEN decision
                     ELSE IF fn = "check-moratorium-date"
                     THEN Returned(PrintedPayload(args.base, decision.value))
                     ELSE Returned(MoratoriumStatus(args.base, decision.value))
    /\ pc' = "returned"
    /\ UNCHANGED <<fn, policy_start_date, as_of_date, rejection_reason, alleged_fraud, args,
                   service_vars>>

\* The caller consumes the payload.
ReturnPayload ==
    /\ pc = "returned"
    /\ pc' = "idle"
    /\ fn' = "none"
    /\ policy_start_date' = None
    /\ as_of_date' = None
    /\ rejection_reason' = NoReason
    /\ alleged_fraud' = FALSE
    /\ args' = NoArgs
    /\ result' = [status |-> "none"]
    /\ UNCHANGED service_vars

NextPayload ==
    \/ EnterPayloadCall
    \/ EvaluateDirectly
    \/ EvaluateInOverride
    \/ ClockAdvances
    \/ ReturnPayload

SpecPayload == InitPayload /\ [][NextPayload]_vars

(***************************************************************************)
(* analyze_documents_node (workflow.py).  legal_basis is a sequence of     *)
(* paragraphs (joined by a blank line in the code) and recommended_action  *)
(* a sequence of sentences (joined by a space); a paragraph or sentence is *)
(* a fixed text with the variable text it embeds, and `x not in text` is   *)
(* the absence of that paragraph or sentence.                              *)
(***************************************************************************)
MORATORIUM_CITATION_ID == "IRDAI/HLT/CIR/PRO/84/5/2024, Clause 6.1"

ConflictTemplate == "Conflict Detected: Policy Clause {clause_id} cited by the insurer is now VOID as per IRDAI Master Circular Ref: IRDAI/HLT/CIR/PRO/84/5/2024, Clause 6.1."

ClinicalStatementTemplate == "Clinical Distinction: {clinical_reason}"

ClinicalStatementDefault == "Clinical Distinction: chronic/pre-existing rejection basis does not match acute clinical presentation in discharge records."

ConstructiveStatementTemplate == "Constructive Knowledge: {constructive_reason}"

ConstructiveStatementDefault == "Constructive Knowledge: disclosed maintenance medication established underwriting knowledge of the treated condition."

StatutoryPrimacyStatementTemplate == "Statutory Primacy: {statutory_reason}"

ImmediateEscalationAction == "Immediate Escalation: The insurer is citing a non-existent policy clause. File a \"Bad Faith\" grievance on Bima Bharosa immediately."

ClinicalAction == "Challenge medical mismatch: acute onset condition cannot be denied under chronic/pre-existing disease exclusion."

ConstructiveAction == "Invoke constructive knowledge: disclosed maintenance medication put insurer on notice, waiving non-disclosure defense."

\* A fixed text as a sequence of paragraphs: the empty text has none.
Paragraphs(text) == IF text = "" THEN <<>> ELSE <<Flag(text, <<>>)>>

\* str(value): of a string itself, of None the word None.
StrOf(value) ==
    IF value.kind = "str" THEN value.chars
    ELSE IF value.kind = "none" THEN <<"N", "o", "n", "e">>
    ELSE IF value.v THEN <<"T", "r", "u", "e">> ELSE <<"F", "a", "l", "s", "e">>

StartsWith(s, prefix) ==
    Len(s) >= Len(prefix) /\ SubSeq(s, 1, Len(prefix)) = prefix

ClausePrefixes ==
    << <<"c", "l", "a", "u", "s", "e", " ">>,
       <<"s", "e", "c", "t", "i", "o", "n", " ">>,
       <<"c", "l", "a", "u", "s", "e", ":">>,
       <<"s", "e", "c", "t", "i", "o", "n", ":">> >>

\* Lines 100 and 165: the first truthy of clause_id and clause_identifier.
ClauseAnchor(forensic, default) ==
    IF Truthy(forensic.clause_id) THEN forensic.clause_id
    ELSE IF Truthy(forensic.clause_identifier) THEN forensic.clause_identifier
    ELSE Str(default)

\* Lines 100-106: the clause id named in the conflict statement.
ConflictClauseId(forensic) ==
    LET Matching(lower) ==
            {k \in 1..Len(ClausePrefixes) : StartsWith(lower, ClausePrefixes[k])}
        Stripped(clause_id, matching) ==
            IF matching = {} THEN clause_id
            ELSE LET first == CHOOSE k \in matching : \A j \in matching : k <= j
                 IN  Strip(SubSeq(clause_id, Len(ClausePrefixes[first]) + 1, Len(clause_id)))
    IN  CHOOSE stripped \in
            UNION { UNION { {Stripped(clause_id, matching) : matching \in {Matching(lower)}} :
                                lower \in {Lower(clause_id)} } :
                        clause_id \in {Strip(StrOf(ClauseAnchor(forensic,
                                           <<"U", "N", "K", "N", "O", "W", "N">>)))} } : TRUE

\* A statement built from a reason, or its default when the reason is empty.
StatementOf(template, default, reason_value) ==
    LET reason == Strip(StrOf(reason_value))
    IN  IF Len(reason) > 0 THEN Flag(template, reason) ELSE Flag(default, <<>>)

\* Faulty variant: only the global reasoning is consulted.
StatutoryPrimacyOverride_GlobalOnly(global_reasoning, forensic) ==
    Truthy(global_reasoning.statutory_primacy_override)

\* Lines 146-148
StatutoryPrimacyOverride(global_reasoning, forensic) ==
    \/ Truthy(global_reasoning.statutory_primacy_override)
    \/ Truthy(forensic.irdai_override_applies)

\* Faulty variant: only the ghost_rejection value is consulted.
CitesNonExistentClause_GhostOnly(forensic) ==
    Truthy(forensic.ghost_rejection)

\* Lines 164-169
CitesNonExistentClause(forensic) ==
    LET has_clause_anchor == Len(Strip(StrOf(ClauseAnchor(forensic, <<>>)))) > 0
    IN  \/ Truthy(forensic.ghost_rejection)
        \/ has_clause_anchor /\ forensic.is_clause_present_in_policy = PyBool(FALSE)

\* Lines 98-198: the legal analysis of the policy agent, amended.
AmendLegalAnalysis(evidence_report, legal_analysis) ==
    LET forensic == evidence_report.forensic_validation
        global_reasoning == evidence_report.global_reasoning
        conflict_statement == Flag(ConflictTemplate, ConflictClauseId(forensic))
        legal_basis0 == Paragraphs(legal_analysis.legal_basis)
        \* lines 114-126
        clinical_invalid == Truthy(global_reasoning.clinical_distinction_invalid)
        clinical_statement ==
            StatementOf(ClinicalStatementTemplate, ClinicalStatementDefault,
                        global_reasoning.clinical_distinction_reason)
        legal_basis1 ==
            IF clinical_invalid THEN AppendUniqueFlag(legal_basis0, clinical_statement)
            ELSE legal_basis0
        \* lines 128-144
        constructive_knowledge == Truthy(global_reasoning.constructive_knowledge)
        constructive_statement ==
            StatementOf(ConstructiveStatementTemplate, ConstructiveStatementDefault,
                        global_reasoning.constructive_knowledge_reason)
        legal_basis ==
            IF constructive_knowledge THEN AppendUniqueFlag(legal_basis1, constructive_statement)
            ELSE legal_basis1
        \* lines 146-162
        cited == \/ legal_analysis.illegal_rejection
                 \/ StatutoryPrimacyOverride(global_reasoning, forensic)
        with_conflict == AppendUniqueFlag(legal_basis, conflict_statement)
        statutory_reason == Strip(StrOf(global_reasoning.statutory_primacy_reason))
        cited_basis ==
            CHOOSE basis \in
                { IF /\ Len(reason) > 0
                     /\ ~\E i \in 1..Len(paragraphs) : Contains(paragraphs[i].text, reason)
                  THEN Append(paragraphs, Flag(StatutoryPrimacyStatementTemplate, reason))
                  ELSE paragraphs :
                      paragraphs \in {with_conflict}, reason \in {statutory_reason} } : TRUE
        \* lines 175-198
        action0 == Paragraphs(legal_analysis.recommended_action)
        action1 == IF clinical_invalid
                   THEN AppendUniqueFlag(action0, Flag(ClinicalAction, <<>>)) ELSE action0
        action2 == IF constructive_knowledge
                   THEN AppendUniqueFlag(action1, Flag(ConstructiveAction, <<>>)) ELSE action1
    IN  [ moratorium_applies |-> legal_analysis.moratorium_applies,
          illegal_rejection |-> legal_analysis.illegal_rejection,
          citation_id |-> IF cited THEN Text(MORATORIUM_CITATION_ID) ELSE NoText,
          legal_basis |-> IF cited THEN cited_basis ELSE legal_basis,
          recommended_action |->
              IF CitesNonExistentClause(forensic)
              THEN <<Flag(ImmediateEscalationAction, <<>>)>>
              ELSE action2 ]

\* Lines 37-41: the timeline with one more entry, stamped with the time.
AppendTimeline(workflow_state, event, now) ==
    Append(workflow_state.timeline, [timestamp |-> now, event |-> event])

\* Lines 85-205: the node runs the evidence agent and the policy agent and
\* returns the update of the workflow state.  The policy agent is
\* PolicyAnalysisAgent, that is moratorium_rule_check without fraud.
AnalyzeDocumentsNode(workflow_state, evidence_report, now) ==
    CHOOSE update \in
        { [ evidence_report |-> evidence_report,
            legal_analysis |-> AmendLegalAnalysis(evidence_report, legal_analysis),
            stage |-> "analysis_complete",
            timeline |-> AppendTimeline(workflow_state, "Analysis complete", now) ] :
                legal_analysis \in
                    {MoratoriumRuleCheck(workflow_state.policy_age_years,
                                         evidence_report.rejection_reason, FALSE)} } : TRUE

\* What the evidence agent may report about the cited clause.
ForensicAnchors ==
    { [ clause_id |-> None, clause_identifier |-> None ],
      [ clause_id |-> Str(<<"4", ".", "1">>), clause_identifier |-> None ],
      [ clause_id |-> Str(<<" ", "C", "l", "a", "u", "s", "e", " ", "4", ".", "1", " ">>),
        clause_identifier |-> None ],
      [ clause_id |-> Str(<<>>),
        clause_identifier |-> Str(<<"S", "e", "c", "t", "i", "o", "n", " ", "9", ".", "2">>) ],
      [ clause_id |-> Str(<<"c", "l", "a", "u", "s", "e", ":", "7">>), clause_identifier |-> None ],
      [ clause_id |-> Str(<<" ", " ">>), clause_identifier |-> None ] }

ForensicValidations ==
    { [ clause_id |-> anchor.clause_id,
        clause_identifier |-> anchor.clause_identifier,
        is_clause_present_in_policy |-> present,
        ghost_rejection |-> ghost,
        irdai_override_applies |-> irdai ] :
        anchor \in ForensicAnchors,
        present \in {None, PyBool(TRUE), PyBool(FALSE)},
        ghost \in {None, PyBool(TRUE)},
        irdai \in {PyBool(FALSE), PyBool(TRUE)} }

NodeClinicalAnswers ==
    { [ invalid |-> None, reason |-> None ],
      [ invalid |-> PyBool(TRUE), reason |-> Str(<<>>) ],
      [ invalid |-> PyBool(TRUE), reason |-> Str(<<"a", "c", "u", "t", "e", " ", "o", "n", "s", "e", "t">>) ] }

NodeConstructiveAnswers ==
    { [ known |-> PyBool(FALSE), reason |-> None ],
      [ known |-> PyBool(TRUE), reason |-> Str(<<"T", "e", "l", "m", "i", "s", "a", "r", "t", "a", "n">>) ] }

NodeStatutoryAnswers ==
    { [ override |-> PyBool(FALSE), reason |-> Str(<<>>) ],
      [ override |-> PyBool(TRUE), reason |-> Str(<<>>) ],
      [ override |-> PyBool(TRUE), reason |-> Str(<<"c", "i", "r", "c", "u", "l", "a", "r", " ", "p", "r", "e", "v", "a", "i", "l", "s">>) ] }

NodeGlobalReasonings ==
    { [ clinical_distinction_invalid |-> c.invalid,
        clinical_distinction_reason |-> c.reason,
        constructive_knowledge |-> k.known,
        constructive_knowledge_reason |-> k.reason,
        statutory_primacy_override |-> t.override,
        statutory_primacy_reason |-> t.reason ] :
        c \in NodeClinicalAnswers, k \in NodeConstructiveAnswers, t \in NodeStatutoryAnswers }

NodeRejectionReasons ==
    { <<"N", "o", "n", "-", "d", "i", "s", "c", "l", "o", "s", "u", "r", "e", " ", "o", "f", " ", "P", "E", "D">>,
      <<"R", "o", "o", "m", " ", "r", "e", "n", "t", " ", "c", "a", "p">> }

EvidenceReports ==
    { [ rejection_reason |-> r, forensic_validation |-> f, global_reasoning |-> g ] :
        r \in NodeRejectionReasons, f \in ForensicValidations, g \in NodeGlobalReasonings }

\* policy_age_years of the claim, in tenths of a year.
NodePolicyAges == {20, 60}

\* ClaimWorkflowState with no key set: an absent value is None, an absent
\* stage the empty string and an absent timeline the empty list.
NoValues ==
    [ claim_id |-> "",
      policy_age_years |-> 0,
      insurer_reply_received |-> None,
      dry_run_portal |-> None,
      evidence_report |-> None,
      legal_analysis |-> None,
      rebuttal_email |-> None,
      portal_result |-> None,
      stage |-> "",
      timeline |-> <<>> ]

\* A workflow state as run_workflow receives it.
InitialState(age, reply) ==
    [NoValues EXCEPT !.policy_age_years = age, !.insurer_reply_received = reply]

\* The node is run on a fresh workflow state.
RunAnalyzeDocumentsNode ==
    /\ pc = "idle"
    /\ \E report \in EvidenceReports, age \in NodePolicyAges :
            /\ fn' = "analyze_documents_node"
            /\ args' = [evidence_report |-> report, policy_age_years |-> age]
            /\ result' = Returned(AnalyzeDocumentsNode(InitialState(age, PyBool(FALSE)),
                                                       report, clock))
    /\ pc' = "returned"
    /\ UNCHANGED <<policy_start_date, as_of_date, rejection_reason, alleged_fraud>>
    /\ UNCHANGED service_vars

NextAnalysisNode ==
    \/ RunAnalyzeDocumentsNode
    \/ Return

SpecAnalysisNode == Init /\ [][NextAnalysisNode]_vars

(***************************************************************************)
(* The compiled graph and run_workflow (workflow.py).  The graph runs its  *)
(* nodes one after the other on the values of the thread claim_id and      *)
(* saves them to the checkpoint store after every node; an invocation on a *)
(* thread that has a checkpoint writes the keys of its input over the      *)
(* saved values and runs again from START.                                 *)
(***************************************************************************)
MaxRuns == 2

ClaimIds == {"WF-1", "WF-2"}

\* The reports of the evidence agent: a plain non-disclosure rejection and
\* a rejection citing a clause absent from the policy.
WorkflowReports ==
    { report \in EvidenceReports :
        /\ report.rejection_reason = <<"N", "o", "n", "-", "d", "i", "s", "c", "l", "o", "s", "u", "r", "e", " ", "o", "f", " ", "P", "E", "D">>
        /\ report.forensic_validation.clause_id = Str(<<"4", ".", "1">>)
        /\ report.forensic_validation.is_clause_present_in_policy \in {PyBool(TRUE), PyBool(FALSE)}
        /\ report.forensic_validation.ghost_rejection = None
        /\ report.forensic_validation.irdai_override_applies = PyBool(FALSE)
        /\ report.global_reasoning.clinical_distinction_invalid = None
        /\ report.global_reasoning.constructive_knowledge = PyBool(FALSE)
        /\ report.global_reasoning.statutory_primacy_override = PyBool(FALSE) }

\* The states a caller passes: insurer_reply_received and dry_run_portal are
\* given or left out.
InitialStates ==
    { [InitialState(60, given[1]) EXCEPT !.claim_id = claim_id, !.dry_run_portal = given[2]] :
        claim_id \in ClaimIds,
        given \in {<<None, None>>, <<PyBool(FALSE), PyBool(FALSE)>>, <<PyBool(TRUE), None>>} }

\* The keys an invocation writes: those its input gives.
InputKeys(input) ==
    {"claim_id", "policy_age_years"}
        \cup (IF input.insurer_reply_received = None THEN {} ELSE {"insurer_reply_received"})
        \cup (IF input.dry_run_portal = None THEN {} ELSE {"dry_run_portal"})

\* The values of the thread when the graph starts on an input.
ValuesAtStart(saved, input) ==
    [key \in DOMAIN saved |-> IF key \in InputKeys(input) THEN input[key] ELSE saved[key]]

FinalStages == {"bima_bharosa_filed", "resolved_by_insurer"}

NodeNames == {"analyze_documents", "draft_rebuttal", "wait_for_reply", "file_bima_bharosa"}

\* The number of run_workflow calls made so far.
Runs == Cardinality({i \in 1..Len(executed) : executed[i].step = "run_workflow"})

\* An entry of the record of what was executed for a claim.
Executed(claim_id, step) == [claim_id |-> claim_id, step |-> step]

InitWorkflow ==
    /\ pc = "idle"
    /\ NoCall
    /\ clock = MORATORIUM_SWITCH_DATE
    /\ state = NoValues
    /\ checkpoints = [claim_id \in ClaimIds |-> NoValues]
    /\ executed = <<>>
    /\ chat_sessions = <<>>

workflow_unchanged ==
    <<policy_start_date, as_of_date, rejection_reason, alleged_fraud, clock, chat_sessions>>

\* Lines 296-297: run_workflow is called.
CallRunWorkflow ==
    /\ pc = "idle"
    /\ Runs < MaxRuns
    /\ \E initial_state \in InitialStates :
            /\ args' = [initial_state |-> initial_state, claim_id |-> initial_state.claim_id]
            /\ executed' = Append(executed, Executed(initial_state.claim_id, "run_workflow"))
    /\ fn' = "run_workflow"
    /\ pc' = "get_state"
    /\ UNCHANGED <<result, state, checkpoints, workflow_unchanged>>

\* Line 304
IsFinalStage(stage) == stage \in FinalStages

\* Lines 299-305: the checkpoint is read; a final stage is returned as stored.
ReadCheckpoint ==
    /\ pc = "get_state"
    /\ LET existing == checkpoints[args.claim_id]
       IN  IF existing # NoValues /\ IsFinalStage(existing.stage)
           THEN /\ result' = Returned(existing)
                /\ pc' = "returned"
           ELSE /\ pc' = "invoke"
                /\ UNCHANGED result
    /\ UNCHANGED <<fn, args, state, checkpoints, executed, workflow_unchanged>>

\* Lines 306-308: the read of the checkpoint raises and the exception is
\* dropped.
ReadCheckpointFails ==
    /\ pc = "get_state"
    /\ pc' = "invoke"
    /\ UNCHANGED <<fn, args, result, state, checkpoints, executed, workflow_unchanged>>

\* Line 309 and lines 268-276: the graph starts on the input.
Invoke ==
    /\ pc = "invoke"
    /\ state' = ValuesAtStart(checkpoints[args.claim_id], args.initial_state)
    /\ pc' = "analyze_documents"
    /\ UNCHANGED <<fn, args, result, checkpoints, executed, workflow_unchanged>>

\* A node has run: its update is written to the values, the values are
\* saved, and the graph moves along the edge.
NodeDone(node, values, next) ==
    /\ state' = values
    /\ checkpoints' = [checkpoints EXCEPT ![args.claim_id] = values]
    /\ executed' = Append(executed, Executed(args.claim_id, node))
    /\ pc' = next
    /\ UNCHANGED <<fn, args, result, workflow_unchanged>>

\* Lines 85-205
RunAnalyzeDocuments ==
    /\ pc = "analyze_documents"
    /\ \E report \in WorkflowReports :
       \E update \in {AnalyzeDocumentsNode(state, report, clock)} :
       \E values \in {[state EXCEPT !.evidence_report = update.evidence_report,
                                    !.legal_analysis = update.legal_analysis,
                                    !.stage = update.stage,
                                    !.timeline = update.timeline]} :
          NodeDone("analyze_documents", values, "draft_rebuttal")

\* Lines 44-73: the parts of the rebuttal e-mail that vary.
DraftRebuttalEmailBody(workflow_state) ==
    [ rejection_reason |-> workflow_state.evidence_report.rejection_reason,
      legal_basis |-> workflow_state.legal_analysis.legal_basis,
      recommended_action |-> workflow_state.legal_analysis.recommended_action ]

\* Lines 207-213
RunDraftRebuttal ==
    /\ pc = "draft_rebuttal"
    /\ NodeDone("draft_rebuttal",
                [state EXCEPT !.rebuttal_email = DraftRebuttalEmailBody(state),
                              !.stage = "rebuttal_drafted",
                              !.timeline = AppendTimeline(state, "Rebuttal drafted", clock)],
                "wait_for_reply")

\* Faulty variant: the complaint is filed whatever the stage.
RouteAfterWait_AlwaysEscalate(stage) == "file_bima_bharosa"

\* Lines 257-260 and 271-275
RouteAfterWait(stage) ==
    IF stage = "escalation_required" THEN "file_bima_bharosa" ELSE "END"

\* Lines 215-223
RunWaitForReply ==
    /\ pc = "wait_for_reply"
    /\ LET no_reply == ~Truthy(state.insurer_reply_received)
           stage == IF no_reply THEN "escalation_required" ELSE "resolved_by_insurer"
           event == IF no_reply THEN "No insurer reply in 24h, escalating"
                    ELSE "Insurer replied in time"
       IN  NodeDone("wait_for_reply",
                    [state EXCEPT !.stage = stage,
                                  !.timeline = AppendTimeline(state, event, clock)],
                    RouteAfterWait(stage))

\* portal_agent.run: a dry run unless dry_run is false.
PortalResult(dry_run) == IF dry_run THEN "dry_run" ELSE "submitted"

\* Lines 225-255
RunFileBimaBharosa ==
    /\ pc = "file_bima_bharosa"
    /\ LET dry_run == IF state.dry_run_portal = None THEN TRUE
                      ELSE state.dry_run_portal.v
       IN  NodeDone("file_bima_bharosa",
                    [state EXCEPT !.portal_result = PortalResult(dry_run),
                                  !.stage = "bima_bharosa_filed",
                                  !.timeline = AppendTimeline(state,
                                                   "Bima Bharosa filing executed", clock)],
                    "END")

\* Lines 309-310: the graph has reached END and its values are returned.
ReturnFinalState ==
    /\ pc = "END"
    /\ result' = Returned(state)
    /\ pc' = "returned"
    /\ UNCHANGED <<fn, args, state, checkpoints, executed, workflow_unchanged>>

\* The caller consumes the returned state.
ReturnFromRunWorkflow ==
    /\ pc = "returned"
    /\ pc' = "idle"
    /\ fn' = "none"
    /\ args' = NoArgs
    /\ result' = [status |-> "none"]
    /\ UNCHANGED <<state, checkpoints, executed, workflow_unchanged>>

\* The steps of a run in progress.
RunStep ==
    \/ ReadCheckpoint
    \/ ReadCheckpointFails
    \/ Invoke
    \/ RunAnalyzeDocuments
    \/ RunDraftRebuttal
    \/ RunWaitForReply
    \/ RunFileBimaBharosa
    \/ ReturnFinalState

NextWorkflow ==
    \/ CallRunWorkflow
    \/ ReadCheckpoint
    \/ ReadCheckpointFails
    \/ Invoke
    \/ RunAnalyzeDocuments
    \/ RunDraftRebuttal
    \/ RunWaitForReply
    \/ RunFileBimaBharosa
    \/ ReturnFinalState
    \/ ReturnFromRunWorkflow

SpecWorkflow == InitWorkflow /\ [][NextWorkflow]_vars

\* graph.invoke runs the nodes to the end within the call: a run in progress
\* takes its next step.
SpecWorkflowRuns == SpecWorkflow /\ WF_vars(RunStep)

(***************************************************************************)
(* web_app.py: the chat sessions of the web application.  A session is     *)
(* kept as its files (document type -> stored file), its thread note, and  *)
(* the last analysis and workflow result; a dict is modelled by its keys.  *)
(* The message list and the time stamps of a session are left out.         *)
(***************************************************************************)
MaxSessions == 2

\* uuid4().hex[:12]: the identifiers come out in some order, all distinct.
SessionIds == [i \in 1..(MaxSessions + 1) |-> <<"session", i>>]

\* Lines 23-28, in the order of the dict.
REQUIRED_DOCUMENTS ==
    <<"policy_document", "rejection_letter", "discharge_summary", "hospital_bill">>

RequiredDocumentTypes == {REQUIRED_DOCUMENTS[i] : i \in 1..Len(REQUIRED_DOCUMENTS)}

EmptyDict == [keys |-> {}]

\* The report of analyze_documents and the final state of run_workflow, as
\* stored in the session.
AnalysisReport == [keys |-> {"rejection_reason", "contestable", "flags"}]

WorkflowResult == [keys |-> {"claim_id", "stage", "timeline"}]

\* Faulty variant: every required document is listed whatever was uploaded.
MissingDocuments_IgnoresFiles(session) == REQUIRED_DOCUMENTS

\* Lines 123-125
MissingDocuments(session) ==
    LET NotInFiles(doc_type) == doc_type \notin DOMAIN session.files
    IN  SelectSeq(REQUIRED_DOCUMENTS, NotInFiles)

\* Lines 128-130
UploadedDocuments(session) ==
    LET InFiles(doc_type) == doc_type \in DOMAIN session.files
    IN  SelectSeq(REQUIRED_DOCUMENTS, InFiles)

\* Lines 133-145
InferDocType(filename, missing) ==
    LET HasAny(lowered, words) == \E word \in words : Contains(lowered, word)
        Inferred(lowered) ==
            IF HasAny(lowered, {<<"p", "o", "l", "i", "c", "y">>}) THEN "policy_document"
            ELSE IF HasAny(lowered, {<<"r", "e", "j", "e", "c", "t", "i", "o", "n">>, <<"r", "e", "p", "u", "d", "i", "a", "t", "i", "o", "n">>}) THEN "rejection_letter"
            ELSE IF HasAny(lowered, {<<"d", "i", "s", "c", "h", "a", "r", "g", "e">>, <<"d", "o", "c", "t", "o", "r">>, <<"s", "u", "m", "m", "a", "r", "y">>}) THEN "discharge_summary"
            ELSE IF HasAny(lowered, {<<"b", "i", "l", "l">>, <<"i", "n", "v", "o", "i", "c", "e">>, <<"h", "o", "s", "p", "i", "t", "a", "l">>}) THEN "hospital_bill"
            ELSE IF Len(missing) > 0 THEN missing[1]
            ELSE "policy_document"
    IN  CHOOSE doc_type \in {Inferred(lowered) : lowered \in {Lower(filename)}} : TRUE

\* Lines 97-102: _clean_thread_note strips, collapses runs of whitespace to
\* one space and keeps 400 characters.
CleanThreadNote(value) ==
    LET Collapsed(text) ==
            LET collapse[i \in 0..Len(text)] ==
                    IF i = 0 THEN <<>>
                    ELSE IF text[i] \notin Whitespace THEN Append(collapse[i - 1], text[i])
                    ELSE IF i > 1 /\ text[i - 1] \in Whitespace THEN collapse[i - 1]
                    ELSE Append(collapse[i - 1], " ")
            IN  collapse[Len(text)]
        Kept(text) == SubSeq(text, 1, IF Len(text) < 400 THEN Len(text) ELSE 400)
    IN  CHOOSE note \in {Kept(Collapsed(text)) : text \in {Strip(value)}} : TRUE

\* Lines 345-357
NewSession(session_id) ==
    [ session_id |-> session_id,
      thread_note |-> <<>>,
      files |-> <<>>,
      last_analysis |-> EmptyDict,
      legal_analysis |-> EmptyDict,
      last_workflow |-> EmptyDict ]

\* bool(dict)
NonEmpty(dict) == dict.keys # {}

\* A call a handler made for a session.
Called(session, function) == Executed(session.session_id, function)

\* What the environment lets an analysis or a workflow run come to: the
\* forensic gate refuses (strict mode without a model), the run raises, or
\* the run returns its result.
Outcomes == {"result", "gate_refused", "raised"}

\* Lines 203-236: the session after the call, whether it raised, and the
\* calls made.
RunAnalysisForSession(session, outcome) ==
    IF Len(MissingDocuments(session)) > 0
    THEN [session |-> session, raised |-> TRUE,
          calls |-> <<Called(session, "_run_analysis_for_session")>>]
    ELSE IF outcome = "gate_refused"
    THEN [session |-> session, raised |-> TRUE,
          calls |-> <<Called(session, "_run_analysis_for_session")>>]
    ELSE IF outcome = "raised"
    THEN [session |-> session, raised |-> TRUE,
          calls |-> <<Called(session, "_run_analysis_for_session"),
                      Called(session, "analyze_documents")>>]
    ELSE [session |-> [session EXCEPT !.last_analysis = AnalysisReport,
                                      !.legal_analysis = [keys |-> {"recommended_action"}]],
          raised |-> FALSE,
          calls |-> <<Called(session, "_run_analysis_for_session"),
                      Called(session, "analyze_documents")>>]

\* Lines 238-285
RunWorkflowForSession(session, outcome) ==
    IF Len(MissingDocuments(session)) > 0 \/ outcome = "gate_refused"
    THEN [session |-> session, raised |-> TRUE,
          calls |-> <<Called(session, "_run_workflow_for_session")>>]
    ELSE LET analysis ==
                 IF NonEmpty(session.last_analysis)
                 THEN [session |-> session, raised |-> FALSE, calls |-> <<>>]
                 ELSE RunAnalysisForSession(session, "result")
             calls == <<Called(session, "_run_workflow_for_session")>> \o analysis.calls
                          \o <<Called(session, "run_workflow")>>
         IN  IF outcome = "raised"
             THEN [session |-> analysis.session, raised |-> TRUE, calls |-> calls]
             ELSE [session |-> [analysis.session EXCEPT !.last_workflow = WorkflowResult],
                   raised |-> FALSE, calls |-> calls]

\* The file names and the doc_type form fields of the uploads sent.
Filenames ==
    { None,
      Str(<<"P", "o", "l", "i", "c", "y", ".", "p", "d", "f">>),
      Str(<<"r", "e", "p", "u", "d", "i", "a", "t", "i", "o", "n", ".", "p", "d", "f">>),
      Str(<<"d", "o", "c", "t", "o", "r", " ", "n", "o", "t", "e", ".", "p", "d", "f">>),
      Str(<<"H", "o", "s", "p", "i", "t", "a", "l", "_", "P", "o", "l", "i", "c", "y", ".", "p", "d", "f">>),
      Str(<<"i", "n", "v", "o", "i", "c", "e", ".", "p", "d", "f">>),
      Str(<<"s", "c", "a", "n", ".", "p", "d", "f">>) }

DocTypeFields ==
    {NoText, Text(""), Text("photo")} \cup {Text(doc_type) : doc_type \in RequiredDocumentTypes}

\* The uploads sent: a file alone, or a file with the doc_type field.
Uploads ==
    {[filename |-> filename, doc_type |-> NoText] : filename \in Filenames}
        \cup {[filename |-> Str(<<"s", "c", "a", "n", ".", "p", "d", "f">>), doc_type |-> doc_type] :
                  doc_type \in DocTypeFields}

\* The texts of the messages sent.
Messages ==
    { <<" ", " ">>,
      <<"h", "e", "l", "l", "o">>,
      <<"E", "s", "c", "a", "l", "a", "t", "e", " ", "n", "o", "w">>,
      <<"a", "n", "a", "l", "y", "z", "e", " ", "n", "o", "w">>,
      <<"R", "e", "v", "i", "e", "w", " ", "a", "n", "d", " ", "f", "i", "l", "e", " ", "c", "o", "m", "p", "l", "a", "i", "n", "t">>,
      <<"s", "t", "a", "t", "u", "s">> }

Notes == { <<" ", " ", "c", "a", "l", "l", " ", "\n", " ", "a", "g", "e", "n", "t", " ">> }

InitWeb ==
    /\ pc = "idle"
    /\ NoCall
    /\ NoService

\* The response goes out; the calls made for the request are kept in executed.
Respond(handler, request, response, sessions, calls) ==
    /\ fn' = handler
    /\ args' = request
    /\ result' = response
    /\ chat_sessions' = sessions
    /\ executed' = calls
    /\ pc' = "returned"
    /\ UNCHANGED <<policy_start_date, as_of_date, rejection_reason, alleged_fraud,
                   clock, state, checkpoints>>

\* Lines 288-293: an unknown session is answered with 404.
SessionNotFound == Raised([status_code |-> 404, detail |-> "chat_session_not_found"])

Known(session_id) == session_id \in DOMAIN chat_sessions

\* The lists every response carries.
Documents(session) ==
    [ uploaded_documents |-> UploadedDocuments(session),
      missing_documents |-> MissingDocuments(session) ]

\* Lines 340-378
ChatStart ==
    /\ pc = "idle"
    /\ Cardinality(DOMAIN chat_sessions) < MaxSessions
    /\ \E session \in {NewSession(SessionIds[Cardinality(DOMAIN chat_sessions) + 1])} :
          Respond("chat_start", [thread_name |-> NoText],
                  Returned([session_id |-> session.session_id, workflow |-> FALSE,
                            analysis |-> "none", documents |-> Documents(session)]),
                  (session.session_id :> session) @@ chat_sessions, <<>>)

\* Lines 401-406
ChatThreadNote ==
    /\ pc = "idle"
    /\ \E i \in 1..(MaxSessions + 1), note \in Notes :
          \E session_id \in {SessionIds[i]} :
             IF ~Known(session_id)
             THEN Respond("chat_thread_note", [session_id |-> session_id, note |-> note],
                          SessionNotFound, chat_sessions, <<>>)
             ELSE \E session \in {[chat_sessions[session_id] EXCEPT
                                       !.thread_note = CleanThreadNote(note)]} :
                     Respond("chat_thread_note", [session_id |-> session_id, note |-> note],
                             Returned([session_id |-> session_id, workflow |-> FALSE,
                                       analysis |-> "none", documents |-> Documents(session)]),
                             [chat_sessions EXCEPT ![session_id] = session], <<>>)

\* Lines 417-419: the type given in the form, or the one inferred.
ResolvedDocType(session, filename, doc_type) ==
    IF doc_type.text # "" THEN doc_type.text
    ELSE InferDocType(IF Truthy(filename) THEN filename.chars
                      ELSE <<"d", "o", "c", "u", "m", "e", "n", "t", ".", "p", "d", "f">>,
                      MissingDocuments(session))

\* Lines 408-458
ChatUpload ==
    /\ pc = "idle"
    /\ \E i \in 1..(MaxSessions + 1), upload \in Uploads, outcome \in Outcomes :
          \E session_id \in {SessionIds[i]}, filename \in {upload.filename},
             doc_type \in {upload.doc_type},
             request \in {[session_id |-> SessionIds[i], filename |-> upload.filename,
                           doc_type |-> upload.doc_type]} :
             IF ~Known(session_id)
             THEN Respond("chat_upload", request, SessionNotFound, chat_sessions, <<>>)
             ELSE IF doc_type.text # "" /\ doc_type.text \notin RequiredDocumentTypes
             THEN Respond("chat_upload", request,
                          Raised([status_code |-> 400, detail |-> "Unsupported doc_type"]),
                          chat_sessions, <<>>)
             ELSE \E resolved_doc_type \in
                        {ResolvedDocType(chat_sessions[session_id], filename, doc_type)} :
                  \E stored \in {[chat_sessions[session_id] EXCEPT
                                      !.files = (resolved_doc_type :> resolved_doc_type) @@ @]} :
                  \E analysis \in
                        {IF Len(MissingDocuments(stored)) > 0
                         THEN [session |-> stored, raised |-> FALSE, calls |-> <<>>]
                         ELSE RunAnalysisForSession(stored, outcome)} :
                     Respond("chat_upload", request,
                             Returned([session_id |-> session_id,
                                       resolved_doc_type |-> resolved_doc_type,
                                       workflow |-> FALSE,
                                       analysis |-> IF analysis.calls = <<>> THEN "none"
                                                    ELSE IF analysis.raised THEN "analysis_error"
                                                    ELSE "analysis",
                                       documents |-> Documents(stored)]),
                             [chat_sessions EXCEPT ![session_id] = analysis.session],
                             analysis.calls)

\* Lines 496-499: what the message asks for.
Wants(lowered, words) == \E word \in words : Contains(lowered, word)

WantsAnalysis(lowered) == Wants(lowered, {<<"a", "n", "a", "l", "y", "z", "e">>, <<"a", "n", "a", "l", "y", "s", "i", "s">>, <<"r", "e", "v", "i", "e", "w">>, <<"c", "h", "e", "c", "k", " ", "c", "l", "a", "i", "m">>})

WantsEscalation(lowered) == Wants(lowered, {<<"e", "s", "c", "a", "l", "a", "t", "e">>, <<"o", "m", "b", "u", "d", "s", "m", "a", "n">>, <<"b", "i", "m", "a">>, <<"f", "i", "l", "e", " ", "c", "o", "m", "p", "l", "a", "i", "n", "t">>})

\* Faulty variant: the escalation is looked for before the analysis.
Operation_EscalationFirst(session, lowered, outcome) ==
    IF WantsEscalation(lowered)
    THEN RunWorkflowForSession(session, outcome)
    ELSE IF WantsAnalysis(lowered) \/ ~NonEmpty(session.last_analysis)
    THEN RunAnalysisForSession(session, outcome)
    ELSE [session |-> session, raised |-> FALSE, calls |-> <<>>]

\* Lines 507-547: the branch a message takes in a session with every
\* document; the branches that only read the session run nothing.
Operation(session, lowered, outcome) ==
    IF WantsAnalysis(lowered) \/ ~NonEmpty(session.last_analysis)
    THEN RunAnalysisForSession(session, outcome)
    ELSE IF WantsEscalation(lowered)
    THEN RunWorkflowForSession(session, outcome)
    ELSE [session |-> session, raised |-> FALSE, calls |-> <<>>]

\* Lines 460-552
ChatMessage ==
    /\ pc = "idle"
    /\ \E i \in 1..(MaxSessions + 1), message \in Messages, outcome \in Outcomes :
          \E session_id \in {SessionIds[i]}, text \in {Strip(message)},
             request \in {[session_id |-> SessionIds[i], message |-> message]} :
             IF ~Known(session_id)
             THEN Respond("chat_message", request, SessionNotFound, chat_sessions, <<>>)
             ELSE IF Len(text) = 0 \/ Len(MissingDocuments(chat_sessions[session_id])) > 0
             THEN Respond("chat_message", request,
                          Returned([session_id |-> session_id, workflow |-> FALSE,
                                    analysis |-> "none",
                                    documents |-> Documents(chat_sessions[session_id])]),
                          chat_sessions, <<>>)
             ELSE \E operation \in {Operation(chat_sessions[session_id], Lower(text), outcome)} :
                     Respond("chat_message", request,
                             Returned([session_id |-> session_id,
                                       workflow |-> /\ ~operation.raised
                                                    /\ operation.calls # <<>>
                                                    /\ operation.calls[1].step =
                                                           "_run_workflow_for_session",
                                       analysis |-> IF operation.raised THEN "error"
                                                    ELSE IF /\ operation.calls # <<>>
                                                            /\ operation.calls[1].step =
                                                                   "_run_analysis_for_session"
                                                    THEN "analysis" ELSE "none",
                                       documents |-> Documents(operation.session)]),
                             [chat_sessions EXCEPT ![session_id] = operation.session],
                             operation.calls)

NextWeb ==
    \/ ChatStart
    \/ ChatThreadNote
    \/ ChatUpload
    \/ ChatMessage
    \/ Return

SpecWeb == InitWeb /\ [][NextWeb]_vars

(***************************************************************************)
(* Vocabulary of the properties.                                           *)
(***************************************************************************)
Day(y, m, d) == [year |-> y, month |-> m, day |-> d]

IsoString(y, m, d) == Str(IsoFormat(Day(y, m, d)))

CheckReturned ==
    pc = "returned" /\ fn = "check_moratorium_eligibility" /\ result.status = "returned"

OverrideReturned ==
    /\ pc = "returned"
    /\ fn = "should_override_nondisclosure_rejection"
    /\ result.status = "returned"

C2_EligibleIffAgeReachesWindow ==
    CheckReturned =>
        (result.value.eligible_for_moratorium_protection
            <=> result.value.policy_age_months
                    >= result.value.applicable_moratorium_months)

C2_Witness ==
    /\ CheckReturned
    /\ policy_start_date = IsoString(2024, 4, 1)
    /\ as_of_date = IsoString(2029, 4, 1)
    /\ result.value.policy_age_months = 60
    /\ result.value.applicable_moratorium_months = 60
    /\ result.value.eligible_for_moratorium_protection

\* C3: should_override_nondisclosure_rejection sets the override flag exactly
\* when the wrapped check is eligible, the reason is classified as
\* non-disclosure and fraud is not alleged.
C3_OverrideIffEligibleNondisclosureNoFraud ==
    OverrideReturned =>
        (result.value.override_nondisclosure_rejection
            <=> /\ result.value.moratorium.eligible_for_moratorium_protection
                /\ result.value.is_nondisclosure_rejection
                /\ ~alleged_fraud)

C3_Witness ==
    /\ OverrideReturned
    /\ result.value.override_nondisclosure_rejection
    /\ result.value.moratorium.eligible_for_moratorium_protection
    /\ result.value.is_nondisclosure_rejection
    /\ ~alleged_fraud

\* C4: the decision is one of four outcomes chosen in precedence order:
\* override (eligible, non-disclosure, no fraud), else the fraud reason
\* (fraud alleged and non-disclosure), else the not-non-disclosure reason,
\* else the not-yet-elapsed reason; the override flag is set only in the
\* first outcome.
C4_FourOutcomesInPrecedenceOrder ==
    OverrideReturned =>
        LET e == result.value.moratorium.eligible_for_moratorium_protection
            nd == result.value.is_nondisclosure_rejection
            f == result.value.alleged_fraud
        IN  /\ result.value.decision_reason =
                   IF e /\ nd /\ ~f THEN OverrideReason
                   ELSE IF f /\ nd THEN FraudReason
                   ELSE IF ~nd THEN NotNondisclosureReason
                   ELSE NotElapsedReason
            /\ result.value.override_nondisclosure_rejection
                   <=> result.value.decision_reason = OverrideReason

C4_Witness ==
    /\ OverrideReturned
    /\ alleged_fraud
    /\ result.value.is_nondisclosure_rejection
    /\ ~result.value.moratorium.eligible_for_moratorium_protection
    /\ result.value.decision_reason = FraudReason
    /\ ~result.value.override_nondisclosure_rejection

\* C5 as stated: every call with fraud alleged ends with override = false and
\* the fraud-allegation reason.
C5_FraudAlwaysGivesFraudReason ==
    (OverrideReturned /\ alleged_fraud) =>
        /\ ~result.value.override_nondisclosure_rejection
        /\ result.value.decision_reason = FraudReason

\* C5 amended: every call with fraud alleged ends with override = false,
\* whatever the eligibility; the reason is the fraud-allegation reason when the
\* rejection reason is classified as non-disclosure and the
\* not-a-non-disclosure-dispute reason when it is not.
C5_FraudSuppressesOverride ==
    (OverrideReturned /\ alleged_fraud) =>
        /\ ~result.value.override_nondisclosure_rejection
        /\ result.value.is_nondisclosure_rejection
               => result.value.decision_reason = FraudReason
        /\ ~result.value.is_nondisclosure_rejection
               => result.value.decision_reason = NotNondisclosureReason

C5_Witness ==
    /\ OverrideReturned
    /\ alleged_fraud
    /\ result.value.moratorium.eligible_for_moratorium_protection
    /\ result.value.is_nondisclosure_rejection
    /\ ~result.value.override_nondisclosure_rejection
    /\ result.value.decision_reason = FraudReason

\* C6: the policy age in months is max(0, (end.year - start.year) * 12 +
\* (end.month - start.month) - d), d = 1 when end.day < start.day and 0
\* otherwise, for every pair of dates.
C6_WholeCompletedMonths ==
    CheckReturned =>
        \A s \in StartDates :
            result.value.policy_start_date = IsoFormat(s) =>
                \A e \in AsOfDates :
                    result.value.as_of_date = IsoFormat(e) =>
                        LET d == IF e.day < s.day THEN 1 ELSE 0
                            raw == (e.year - s.year) * 12 + (e.month - s.month) - d
                        IN  result.value.policy_age_months = (IF raw < 0 THEN 0 ELSE raw)

C6_Witness ==
    /\ CheckReturned
    /\ policy_start_date = IsoString(2018, 3, 31)
    /\ as_of_date = IsoString(2024, 3, 30)
    /\ result.value.policy_age_months = 71

\* C7: for an as-of date on or after the start date the age is >= 0, for
\* equal dates it is 0, and the age in every returned MoratoriumCheck is a
\* natural number.
C7_AgeNonNegative ==
    CheckReturned =>
        /\ result.value.policy_age_months \in Nat
        /\ \A s \in StartDates :
               result.value.policy_start_date = IsoFormat(s) =>
                   \A a \in AsOfDates :
                       result.value.as_of_date = IsoFormat(a) =>
                           /\ DateGeq(a, s) => result.value.policy_age_months >= 0
                           /\ a = s => result.value.policy_age_months = 0

C7_Witness ==
    /\ CheckReturned
    /\ policy_start_date = IsoString(2024, 4, 1)
    /\ as_of_date = IsoString(2024, 4, 1)
    /\ result.value.policy_age_months = 0

\* C8: with two valid dates the call returns a result; when the as-of date
\* precedes the policy start the age is 0, the policy is not eligible and
\* should_override_nondisclosure_rejection does not override.
C8_NeverFailsOnValidDates ==
    pc = "returned" =>
        \A s \in StartDates :
            policy_start_date = Str(IsoFormat(s)) =>
                \A a \in AsOfDates :
                    as_of_date = Str(IsoFormat(a)) =>
                        /\ result.status = "returned"
                        /\ DateLess(a, s) =>
                               LET m == IF fn = "check_moratorium_eligibility"
                                        THEN result.value
                                        ELSE result.value.moratorium
                               IN  /\ m.policy_age_months = 0
                                   /\ ~m.eligible_for_moratorium_protection
                                   /\ fn = "should_override_nondisclosure_rejection"
                                          => ~result.value.override_nondisclosure_rejection

C8_Witness ==
    /\ OverrideReturned
    /\ policy_start_date = IsoString(2024, 4, 2)
    /\ as_of_date = IsoString(2015, 1, 1)
    /\ result.value.moratorium.policy_age_months = 0
    /\ ~result.value.moratorium.eligible_for_moratorium_protection
    /\ ~result.value.override_nondisclosure_rejection

RuleCheckReturned ==
    pc = "returned" /\ fn = "moratorium_rule_check" /\ result.status = "returned"

EngineCallDone ==
    /\ pc = "returned"
    /\ fn \in {"check_moratorium_eligibility", "should_override_nondisclosure_rejection"}

EightTokens ==
    { <<"n", "o", "n", "-", "d", "i", "s", "c", "l", "o", "s", "u", "r", "e">>,
      <<"n", "o", "n", "d", "i", "s", "c", "l", "o", "s", "u", "r", "e">>,
      <<"n", "o", "n", " ", "d", "i", "s", "c", "l", "o", "s", "u", "r", "e">>,
      <<"s", "u", "p", "p", "r", "e", "s", "s", "i", "o", "n">>,
      <<"p", "r", "e", "-", "e", "x", "i", "s", "t", "i", "n", "g">>,
      <<"p", "r", "e", " ", "e", "x", "i", "s", "t", "i", "n", "g">>,
      <<"p", "e", "d">>,
      <<"h", "i", "d", "d", "e", "n">> }

\* A token occurs in the reason when both are compared letter by letter
\* without regard to case.
OccursIgnoringCase(reason, token) ==
    \E i \in 1..Len(reason) :
        /\ i + Len(token) - 1 <= Len(reason)
        /\ \A j \in 1..Len(token) : LowerChar(reason[i + j - 1]) = token[j]

\* The classification the eight tokens give to each reason of the model.
ExpectedClass ==
    [r \in Reasons |-> \E token \in EightTokens : OccursIgnoringCase(r, token)]

\* The reasons that differ from a reason in letter case only.
CaseTwins == [r \in Reasons |-> {other \in Reasons : Lower(other) = Lower(r)}]

\* C11: is_nondisclosure_rejection is true exactly when the lowercased reason
\* contains one of the eight tokens as a substring, and reasons that differ
\* only in letter case are classified the same.
C11_ClassifierIsSubstringOfLowercase ==
    OverrideReturned =>
        /\ result.value.is_nondisclosure_rejection <=> ExpectedClass[rejection_reason]
        /\ \A other \in CaseTwins[rejection_reason] :
               IsNondisclosure(other) = result.value.is_nondisclosure_rejection

C11_Witness ==
    /\ OverrideReturned
    /\ rejection_reason = <<"H", "i", "d", "d", "e", "n", " ", "B", "P">>
    /\ <<"h", "i", "d", "d", "e", "n", " ", "b", "p">> \in Reasons
    /\ result.value.is_nondisclosure_rejection

\* C12: moratorium_applies is policy_age_years > 5, strictly, whatever the
\* reason and the fraud flag; a post-transition policy aged exactly 60 months
\* is eligible in the date-aware engine while an age of 5.0 years does not
\* make the moratorium apply in moratorium_rule_check.
C12_StrictFiveYearThreshold ==
    /\ RuleCheckReturned =>
           /\ result.value.moratorium_applies <=> args.policy_age_years > 50
           /\ \A r \in Reasons, f \in BOOLEAN :
                  MoratoriumRuleCheck(args.policy_age_years, r, f).moratorium_applies
                      = result.value.moratorium_applies
    /\ ( /\ CheckReturned
         /\ result.value.applicable_moratorium_months = 60
         /\ result.value.policy_age_months = 60 ) =>
           /\ result.value.eligible_for_moratorium_protection
           /\ \A r \in Reasons, f \in BOOLEAN :
                  ~MoratoriumRuleCheck(50, r, f).moratorium_applies

C12_Witness ==
    /\ RuleCheckReturned
    /\ args.policy_age_years = 50
    /\ ~result.value.moratorium_applies

\* C13: illegal_rejection is moratorium_applies and isNondisclosure(reason)
\* and not alleged_fraud, with the classifier of the date-aware engine.
C13_SameClassifierInBothPaths ==
    RuleCheckReturned =>
        (result.value.illegal_rejection
            <=> /\ result.value.moratorium_applies
                /\ IsNondisclosure(rejection_reason)
                /\ ~alleged_fraud)

\* C14: a date string that does not parse makes the call fail; no result is
\* returned for it.
C14_UnparsableStringIsFatal ==
    EngineCallDone =>
        \A v \in {policy_start_date, as_of_date} :
            (v.kind = "str" /\ ~Strptime(v.chars).ok) => result.status = "raised"

\* C15: a date string with surrounding whitespace is accepted by the
\* moratorium engine and gives the date of the trimmed string.
C15_WhitespaceIsTrimmed ==
    ( /\ EngineCallDone
      /\ policy_start_date.kind = "str"
      /\ Strptime(Strip(policy_start_date.chars)).ok
      /\ as_of_date.kind = "str" => Strptime(Strip(as_of_date.chars)).ok ) =>
        /\ result.status = "returned"
        /\ LET m == IF fn = "check_moratorium_eligibility"
                    THEN result.value ELSE result.value.moratorium
           IN  m.policy_start_date
                   = IsoFormat(Strptime(Strip(policy_start_date.chars)).date)

\* C17: with the same start, as-of date and reason, the call with fraud
\* alleged does not override, and it differs from the call without fraud in
\* no field other than alleged_fraud, the override flag and the decision
\* reason; for start 2015-01-10 as of 2026-02-17 and a non-disclosure reason
\* the call without fraud overrides.
C17_FraudChangesOnlyTheDecision ==
    (OverrideReturned /\ Truthy(as_of_date)) =>
        LET other == ShouldOverrideNondisclosureRejection(
                         policy_start_date, rejection_reason, as_of_date,
                         ~alleged_fraud, MORATORIUM_SWITCH_DATE)
        IN  /\ alleged_fraud => ~result.value.override_nondisclosure_rejection
            /\ other.status = "returned"
            /\ other.value.moratorium = result.value.moratorium
            /\ other.value.is_nondisclosure_rejection
                   = result.value.is_nondisclosure_rejection
            /\ other.value.rejection_reason = result.value.rejection_reason
            /\ other.value.alleged_fraud = ~result.value.alleged_fraud
            /\ ( /\ policy_start_date = IsoString(2015, 1, 10)
                 /\ as_of_date = IsoString(2026, 2, 17)
                 /\ result.value.is_nondisclosure_rejection ) =>
                   /\ result.value.override_nondisclosure_rejection = ~alleged_fraud
                   /\ other.value.override_nondisclosure_rejection = alleged_fraud

C17_Witness ==
    /\ OverrideReturned
    /\ policy_start_date = IsoString(2015, 1, 10)
    /\ as_of_date = IsoString(2026, 2, 17)
    /\ alleged_fraud
    /\ result.value.is_nondisclosure_rejection
    /\ result.value.moratorium.eligible_for_moratorium_protection
    /\ ~result.value.override_nondisclosure_rejection


(***************************************************************************)
(* Vocabulary of the evidence matcher properties.                          *)
(***************************************************************************)
ComplianceCalled ==
    pc = "returned" /\ fn = "check_irdai_2017_response_time_compliance"

CalendarDays ==
    { d \in [year : 2024..2026, month : 1..12, day : 1..31] :
        IsValidDate(d.year, d.month, d.day) }

\* The calendar days from one date to another, counted one by one.
CalendarDaysFromTo(from, to) ==
    IF DateLess(to, from)
    THEN 0 - Cardinality({d \in CalendarDays : DateGeq(d, to) /\ DateLess(d, from)})
    ELSE Cardinality({d \in CalendarDays : DateGeq(d, from) /\ DateLess(d, to)})

\* The argument values that denote a calendar day.
WrittenAs(d) ==
    { Str(IsoFormat(d)), DateValue(d), DatetimeValue(d, 9) }
        \cup IF d = Day(2026, 1, 16) THEN { Str(t) : t \in SixteenthOfJanuaryTexts }
             ELSE {}

\* C18: check_irdai_2017_response_time_compliance reports the number of
\* calendar days from the claim submission to the rejection, a violation
\* exactly when that number exceeds 15, and the status "violation" exactly
\* when it reports a violation, else "compliant"; a rejection 15 days after
\* the submission, or dated before it, is compliant.
C18_ViolationIffMoreThanFifteenDays ==
    ComplianceCalled =>
        \A c \in ClaimDates :
            args.claim_submission_date \in WrittenAs(c) =>
                \A r \in RejectionDates :
                    args.rejection_date \in WrittenAs(r) =>
                        LET days == CalendarDaysFromTo(c, r)
                        IN  /\ result.status = "returned"
                            /\ result.value.days_to_rejection = days
                            /\ result.value.violation_15_day_rule = (days > 15)
                            /\ result.value.compliance_status =
                                   IF result.value.violation_15_day_rule
                                   THEN "violation" ELSE "compliant"
                            /\ (days = 15 \/ DateLess(r, c)) =>
                                   result.value.compliance_status = "compliant"

\* A rejection on 16 January 2026 of a claim submitted on 1 January 2026 is
\* 15 days late and reported compliant.
C18_Witness ==
    /\ ComplianceCalled
    /\ args.claim_submission_date = IsoString(2026, 1, 1)
    /\ args.rejection_date = IsoString(2026, 1, 16)
    /\ result.status = "returned"
    /\ result.value.days_to_rejection = 15
    /\ ~result.value.violation_15_day_rule
    /\ result.value.compliance_status = "compliant"


AnalyzeReturned ==
    pc = "returned" /\ fn = "analyze_documents" /\ result.status = "returned"

ExtractionReturned ==
    pc = "returned" /\ fn = "_extract_rejection_structure_with_llm"

\* A value that is a text with at least one character that is not whitespace.
HasText(value) ==
    value.kind = "str" /\ \E i \in 1..Len(value.chars) : value.chars[i] \notin Whitespace

HasFlag(flags, flag) == \E i \in 1..Len(flags) : flags[i] = flag

\* C19: when the extracted clause_id is non-empty and the clause is not
\* present in the policy, the report of analyze_documents has ghost_rejection
\* true in forensic_validation and in clause_extraction, is contestable and
\* carries a Ghost Rejection flag naming the cited clause, whatever
\* ghost_rejection value the extraction returned; and the extraction step,
\* when it extracted a clause_id, returns ghost_rejection true exactly when
\* the clause is not present, whatever hint the model gave.
C19_CitedAbsentClauseIsGhostRejection ==
    /\ ( /\ AnalyzeReturned
         /\ HasText(args.structured_rejection.clause_id)
         /\ ~Truthy(args.structured_rejection.is_clause_present_in_policy) )
       => /\ result.value.forensic_validation.ghost_rejection
          /\ result.value.clause_extraction.ghost_rejection
          /\ result.value.contestable
          /\ HasFlag(result.value.flags,
                     Flag(GhostRejectionTemplate,
                          Strip(args.structured_rejection.clause_id.chars)))
    /\ ( /\ ExtractionReturned
         /\ args.llm_configured
         /\ HasText(args.parsed.clause_id) )
       => /\ result.value.clause_id # <<>>
          /\ result.value.ghost_rejection = ~result.value.is_clause_present_in_policy

\* Clause 9.9 is cited and absent from the policy, the extraction returned
\* ghost_rejection false, and the report says ghost rejection.
C19_Witness ==
    /\ AnalyzeReturned
    /\ args.structured_rejection.clause_id = Str(<<"C", "l", "a", "u", "s", "e", " ", "9", ".", "9">>)
    /\ args.structured_rejection.is_clause_present_in_policy = PyBool(FALSE)
    /\ args.structured_rejection.ghost_rejection = PyBool(FALSE)
    /\ result.value.forensic_validation.ghost_rejection
    /\ result.value.contestable
    /\ HasFlag(result.value.flags, Flag(GhostRejectionTemplate, <<"C", "l", "a", "u", "s", "e", " ", "9", ".", "9">>))

\* The rejection reasons of the inputs that are non-disclosure rejections;
\* with no extracted reason the letter's own text (pre-existing disease) is used.
NondisclosureReasonInputs == { Str(<<"N", "o", "n", "-", "d", "i", "s", "c", "l", "o", "s", "u", "r", "e", " ", "o", "f", " ", "P", "E", "D">>), Str(<<>>) }

\* C20: when the cited clause is present in the policy and its excerpt is a
\* legacy moratorium clause for a non-disclosure rejection, the report has
\* irdai_override_applies true, the conflict note "Policy <clause> is now
\* void as per IRDAI Ref: IRDAI/HLT/CIR/PRO/84/5/2024, Clause 6.1.", that
\* note among the flags and contestable true; in every report the
\* regulatory_reference is the IRDAI citation exactly when
\* irdai_override_applies is true and null otherwise, and the override implies
\* contestable and a non-empty conflict note.
C20_LegacyClauseIsVoid ==
    AnalyzeReturned =>
        LET report == result.value
            validation == result.value.forensic_validation
            void_note == Flag("Policy {cited_reference} is now void as per IRDAI Ref: IRDAI/HLT/CIR/PRO/84/5/2024, Clause 6.1.",
                              Strip(OrEmpty(args.structured_rejection.clause_id)))
        IN  /\ ( /\ HasText(args.structured_rejection.clause_id)
                 /\ Truthy(args.structured_rejection.is_clause_present_in_policy)
                 /\ args.structured_rejection.policy_clause_excerpt = Str(LegacyExcerpt)
                 /\ args.structured_rejection.rejection_reason \in NondisclosureReasonInputs )
               => /\ validation.irdai_override_applies
                  /\ validation.conflict_note = void_note
                  /\ HasFlag(report.flags, void_note)
                  /\ report.contestable
            /\ validation.irdai_override_applies
                   <=> validation.regulatory_reference = Text("IRDAI/HLT/CIR/PRO/84/5/2024, Clause 6.1")
            /\ ~validation.irdai_override_applies
                   => validation.regulatory_reference.kind = "none"
            /\ validation.irdai_override_applies
                   => report.contestable /\ validation.conflict_note.template # ""

\* Clause 4.1 is present, allows repudiation within 8 years for
\* non-disclosure, no statutory primacy answer was given, and the report
\* declares the clause void.
C20_Witness ==
    /\ AnalyzeReturned
    /\ args.structured_rejection.clause_id = Str(<<" ", "C", "l", "a", "u", "s", "e", " ", "4", ".", "1", " ">>)
    /\ args.structured_rejection.is_clause_present_in_policy = PyBool(TRUE)
    /\ args.structured_rejection.policy_clause_excerpt = Str(LegacyExcerpt)
    /\ args.structured_rejection.rejection_reason = Str(<<"N", "o", "n", "-", "d", "i", "s", "c", "l", "o", "s", "u", "r", "e", " ", "o", "f", " ", "P", "E", "D">>)
    /\ ~Truthy(args.global_reasoning.statutory_primacy_override)
    /\ result.value.forensic_validation.irdai_override_applies
    /\ result.value.forensic_validation.conflict_note = Flag(VoidClauseTemplate, <<"C", "l", "a", "u", "s", "e", " ", "4", ".", "1">>)
    /\ result.value.forensic_validation.regulatory_reference.kind = "str"


\* The result of the call of thread t when it runs alone.
ResultAlone(t) ==
    IF fn[t] = "check_moratorium_eligibility"
    THEN CheckMoratoriumEligibility(policy_start_date[t], as_of_date[t],
                                    MORATORIUM_SWITCH_DATE)
    ELSE IF fn[t] = "should_override_nondisclosure_rejection"
    THEN ShouldOverrideNondisclosureRejection(policy_start_date[t], rejection_reason[t],
                                              as_of_date[t], alleged_fraud[t],
                                              MORATORIUM_SWITCH_DATE)
    ELSE Returned(MoratoriumRuleCheck(args[t].policy_age_years, rejection_reason[t],
                                      alleged_fraud[t]))

\* A step of one thread leaves the arguments, the locals, the position and
\* the result of every other thread as they were.
StepsAreLocal ==
    \A t \in Threads :
        pc'[t] # pc[t] =>
            \A u \in Threads \ {t} :
                /\ pc'[u] = pc[u]
                /\ fn'[u] = fn[u]
                /\ args'[u] = args[u]
                /\ result'[u] = result[u]
                /\ policy_start_date'[u] = policy_start_date[u]
                /\ as_of_date'[u] = as_of_date[u]
                /\ rejection_reason'[u] = rejection_reason[u]
                /\ alleged_fraud'[u] = alleged_fraud[u]

\* C16: when calls of check_moratorium_eligibility,
\* should_override_nondisclosure_rejection and moratorium_rule_check with
\* given as-of dates run concurrently, in every interleaving each call returns
\* the result it returns when run alone, and no step of a call changes what
\* belongs to another call.
C16_ConcurrentCallsAreIndependent ==
    /\ [](\A t \in Threads : pc[t] = "returned" => result[t] = ResultAlone(t))
    /\ [][StepsAreLocal]_vars

\* One thread has returned an override decision while another, called with
\* other arguments, is in the middle of its own decision.
C16_Witness ==
    \E t \in Threads, u \in Threads :
        /\ pc[t] = "returned"
        /\ fn[t] = "should_override_nondisclosure_rejection"
        /\ result[t].status = "returned"
        /\ result[t].value.override_nondisclosure_rejection
        /\ pc[u] = "rules_103"
        /\ policy_start_date[u] # policy_start_date[t]
        /\ result[t] = ResultAlone(t)


\* The constructive-knowledge findings of the two model-backed steps.
ConstructiveKnowledgeReported ==
    \/ args.medication_cross_reference.constructive_knowledge = PyBool(TRUE)
    \/ args.global_reasoning.constructive_knowledge = PyBool(TRUE)

\* The reason text available to the report: the medication step's, else the
\* global reasoning's.
ConstructiveReasonAvailable ==
    IF HasText(args.medication_cross_reference.reason)
    THEN Strip(args.medication_cross_reference.reason.chars)
    ELSE IF HasText(args.global_reasoning.constructive_knowledge_reason)
    THEN Strip(args.global_reasoning.constructive_knowledge_reason.chars)
    ELSE <<>>

\* C21: when the medication cross-reference or the global reasoning reports
\* constructive knowledge, the report of analyze_documents is contestable,
\* its medication_cross_reference has constructive_knowledge true and it
\* carries the fixed legal note; the note is non-empty exactly when
\* constructive knowledge was found; and a "Constructive knowledge check:"
\* flag with the reason is among the flags when a reason text is available.
C21_ConstructiveKnowledgeIsContestable ==
    AnalyzeReturned =>
        /\ ConstructiveKnowledgeReported =>
              /\ result.value.contestable
              /\ result.value.medication_cross_reference.constructive_knowledge = PyBool(TRUE)
              /\ result.value.constructive_knowledge_note =
                     "The insurer had constructive knowledge of the condition as the specific maintenance medication (Telmisartan 40mg) was explicitly disclosed in the proposal form. Failure to seek further clarification at the time of underwriting waives the right to reject now."
              /\ ConstructiveReasonAvailable # <<>> =>
                     HasFlag(result.value.flags,
                             Flag("Constructive knowledge check: {constructive_reason}",
                                  ConstructiveReasonAvailable))
        /\ result.value.constructive_knowledge_note # "" <=> ConstructiveKnowledgeReported

\* Only the global reasoning reports constructive knowledge, with a reason,
\* and the report is contestable with the legal note and the flag.
C21_Witness ==
    /\ AnalyzeReturned
    /\ args.medication_cross_reference.constructive_knowledge = PyBool(FALSE)
    /\ args.medication_cross_reference.reason = None
    /\ args.global_reasoning.constructive_knowledge = PyBool(TRUE)
    /\ result.value.contestable
    /\ result.value.constructive_knowledge_note = CONSTRUCTIVE_KNOWLEDGE_LEGAL_NOTE
    /\ HasFlag(result.value.flags,
               Flag(ConstructiveKnowledgeTemplate, <<"P", "r", "o", "p", "o", "s", "a", "l", " ", "l", "i", "s", "t", "s", " ", "T", "e", "l", "m", "i", "s", "a", "r", "t", "a", "n">>))


\* The as-of date the engine used, read back from its result.
CurrentOf(check) == Strptime(check.as_of_date).date

\* The as-of dates on or after the one the engine used.
LaterAsOfDates(check) ==
    UNION { {later \in AsOfDates : DateGeq(later, current)} : current \in {CurrentOf(check)} }

\* The policy start date the engine used, read back from its result.
StartOf(check) == DateValue(Strptime(check.policy_start_date).date)

\* C29: for a fixed policy start date, policy_age_months does not decrease
\* as the as-of date moves later, protection once reached is kept at every
\* later as-of date, and an override granted for a rejection reason and
\* fraud flag is granted again at every later as-of date.
C29_AgeAndProtectionAreMonotone ==
    /\ CheckReturned =>
          \A start \in {StartOf(result.value)} :
              \A later \in LaterAsOfDates(result.value) :
                  \A again \in {CheckMoratoriumEligibility(start, DateValue(later), later)} :
                      /\ again.status = "returned"
                      /\ again.value.policy_age_months >= result.value.policy_age_months
                      /\ result.value.eligible_for_moratorium_protection =>
                             again.value.eligible_for_moratorium_protection
    /\ (OverrideReturned /\ result.value.override_nondisclosure_rejection) =>
          \A start \in {StartOf(result.value.moratorium)} :
              \A later \in LaterAsOfDates(result.value.moratorium) :
                  \A again \in {ShouldOverrideNondisclosureRejection(
                                    start, rejection_reason,
                                    DateValue(later), alleged_fraud, later)} :
                      /\ again.status = "returned"
                      /\ again.value.override_nondisclosure_rejection

\* An override granted at an as-of date that a later sampled date follows,
\* with a strictly greater policy age there.
C29_Witness ==
    /\ OverrideReturned
    /\ result.value.override_nondisclosure_rejection
    /\ ~alleged_fraud
    /\ \E later \in LaterAsOfDates(result.value.moratorium) :
          /\ DateLess(CurrentOf(result.value.moratorium), later)
          /\ MonthsBetween(Strptime(result.value.moratorium.policy_start_date).date, later)
                 > result.value.moratorium.policy_age_months


\* A datetime replaced by its date component; any other value unchanged.
DateComponent(value) ==
    IF value.kind = "datetime" THEN DateValue(value.date) ELSE value

\* A date or datetime replaced by the ISO string of its date; any other
\* value unchanged.
IsoStringOf(value) ==
    IF value.kind \in {"date", "datetime"} THEN Str(IsoFormat(value.date)) ELSE value

\* The clock reading of a finished call, as far as the result shows it.
ClockOf(outcome) ==
    IF outcome.status = "returned" THEN CurrentOf(outcome.value) ELSE MORATORIUM_SWITCH_DATE

\* C30: the policy_start_date and as_of_date of a result r are ISO strings
\* that check_moratorium_eligibility accepts, and calling it on them returns
\* a result equal to r in every field; a datetime input gives the result of
\* its date component, and a date input gives the result of its ISO string.
C30_ResultRoundTrips ==
    (pc = "returned" /\ fn = "check_moratorium_eligibility") =>
        \A today \in {ClockOf(result)} :
            /\ result.status = "returned" =>
                   /\ Strptime(result.value.policy_start_date).ok
                   /\ Strptime(result.value.as_of_date).ok
                   /\ CheckMoratoriumEligibility(Str(result.value.policy_start_date),
                                                 Str(result.value.as_of_date), today)
                          = result
            /\ (policy_start_date.kind = "datetime" \/ as_of_date.kind = "datetime") =>
                   CheckMoratoriumEligibility(DateComponent(policy_start_date),
                                              DateComponent(as_of_date), today) = result
            /\ (policy_start_date.kind = "date" \/ as_of_date.kind = "date") =>
                   CheckMoratoriumEligibility(IsoStringOf(policy_start_date),
                                              IsoStringOf(as_of_date), today) = result

\* A call with a datetime start and a date as-of returns the ISO strings of
\* the two dates.
C30_Witness ==
    /\ CheckReturned
    /\ policy_start_date = DatetimeValue(Day(2024, 4, 1), 23)
    /\ as_of_date = DateValue(Day(2029, 4, 1))
    /\ result.value.policy_start_date = IsoFormat(Day(2024, 4, 1))
    /\ result.value.as_of_date = IsoFormat(Day(2029, 4, 1))
    /\ result.value.eligible_for_moratorium_protection


PayloadReturned(command) ==
    pc = "returned" /\ fn = command /\ result.status = "returned"

\* C27: the two evaluations of the moratorium agree: the "moratorium" that
\* check-moratorium-date prints equals its "override_decision.moratorium",
\* and in the status of calculate_moratorium_status statutory_override
\* implies eligible_for_moratorium_protection, also when the as-of date is
\* absent and the clock advances between the two readings.
C27_TwoEvaluationsAgree ==
    /\ PayloadReturned("check-moratorium-date") =>
           result.value.moratorium = result.value.override_decision.moratorium
    /\ PayloadReturned("calculate_moratorium_status") =>
           (result.value.statutory_override =>
                result.value.eligible_for_moratorium_protection)


NodeReturned ==
    pc = "returned" /\ fn = "analyze_documents_node" /\ result.status = "returned"

\* The policy agent reports an illegal rejection, or statutory primacy is
\* reported by the global reasoning or by the forensic validation.
CitationExpected ==
    \/ result.value.legal_analysis.illegal_rejection
    \/ args.evidence_report.global_reasoning.statutory_primacy_override = PyBool(TRUE)
    \/ args.evidence_report.forensic_validation.irdai_override_applies = PyBool(TRUE)

\* The clause ids the conflict statement names for the reported anchors.
NamedClauseIds ==
    { [ given |-> Str(<<"4", ".", "1">>), identifier |-> None, named |-> <<"4", ".", "1">> ],
      [ given |-> Str(<<" ", "C", "l", "a", "u", "s", "e", " ", "4", ".", "1", " ">>),
        identifier |-> None, named |-> <<"4", ".", "1">> ],
      [ given |-> Str(<<>>),
        identifier |-> Str(<<"S", "e", "c", "t", "i", "o", "n", " ", "9", ".", "2">>),
        named |-> <<"9", ".", "2">> ] }

IsConflictStatement(paragraph) ==
    paragraph.template = "Conflict Detected: Policy Clause {clause_id} cited by the insurer is now VOID as per IRDAI Master Circular Ref: IRDAI/HLT/CIR/PRO/84/5/2024, Clause 6.1."

\* C22: when the policy agent reports illegal_rejection or a statutory
\* primacy override is reported (by the global reasoning or by the forensic
\* irdai_override_applies), legal_analysis has the citation_id
\* "IRDAI/HLT/CIR/PRO/84/5/2024, Clause 6.1" and its legal_basis contains the
\* conflict statement naming the cited clause with a leading "Clause " or
\* "Section " removed; when neither holds there is no citation_id and no
\* conflict statement.
C22_CitationAndConflictStatement ==
    NodeReturned =>
        LET legal_analysis == result.value.legal_analysis
            forensic == args.evidence_report.forensic_validation
        IN  IF CitationExpected
            THEN /\ legal_analysis.citation_id = Text("IRDAI/HLT/CIR/PRO/84/5/2024, Clause 6.1")
                 /\ \E i \in 1..Len(legal_analysis.legal_basis) :
                        IsConflictStatement(legal_analysis.legal_basis[i])
                 /\ \A expected \in NamedClauseIds :
                        ( /\ forensic.clause_id = expected.given
                          /\ forensic.clause_identifier = expected.identifier ) =>
                            \E i \in 1..Len(legal_analysis.legal_basis) :
                                /\ IsConflictStatement(legal_analysis.legal_basis[i])
                                /\ legal_analysis.legal_basis[i].text = expected.named
            ELSE /\ legal_analysis.citation_id = NoText
                 /\ \A i \in 1..Len(legal_analysis.legal_basis) :
                        ~IsConflictStatement(legal_analysis.legal_basis[i])

\* The policy agent finds nothing illegal, the forensic validation alone
\* reports the override, and the conflict statement names clause 4.1.
C22_Witness ==
    /\ NodeReturned
    /\ ~result.value.legal_analysis.illegal_rejection
    /\ args.evidence_report.global_reasoning.statutory_primacy_override = PyBool(FALSE)
    /\ args.evidence_report.forensic_validation.irdai_override_applies = PyBool(TRUE)
    /\ args.evidence_report.forensic_validation.clause_id =
           Str(<<" ", "C", "l", "a", "u", "s", "e", " ", "4", ".", "1", " ">>)
    /\ result.value.legal_analysis.citation_id = Text(MORATORIUM_CITATION_ID)
    /\ HasFlag(result.value.legal_analysis.legal_basis,
               Flag(ConflictTemplate, <<"4", ".", "1">>))

\* The forensic validation reports a ghost rejection, or a non-empty clause
\* anchor with is_clause_present_in_policy false.
NonExistentClauseReported ==
    LET forensic == args.evidence_report.forensic_validation
    IN  \/ forensic.ghost_rejection = PyBool(TRUE)
        \/ /\ forensic.is_clause_present_in_policy = PyBool(FALSE)
           /\ \/ HasText(forensic.clause_id)
              \/ ~Truthy(forensic.clause_id) /\ HasText(forensic.clause_identifier)

Occurrences(sentences, sentence) ==
    Cardinality({i \in 1..Len(sentences) : sentences[i].template = sentence})

\* C23: when the forensic validation reports ghost_rejection, or a non-empty
\* clause anchor with is_clause_present_in_policy false, recommended_action
\* is exactly the "Immediate Escalation" text, without the policy agent's
\* action and without the clinical and constructive-knowledge additions;
\* otherwise it begins with the policy agent's action and each addition
\* appears once when its finding is reported and not at all when it is not.
C23_GhostRejectionEscalates ==
    NodeReturned =>
        LET action == result.value.legal_analysis.recommended_action
            global_reasoning == args.evidence_report.global_reasoning
            agent_action ==
                IF result.value.legal_analysis.illegal_rejection
                THEN "Demand immediate reversal, cite 5-year moratorium protection, and escalate to Bima Bharosa and Insurance Ombudsman if insurer does not comply."
                ELSE "Request full repudiation basis with clause citations and evidence, then proceed to escalation if grounds remain weak or non-compliant."
            clinical == "Challenge medical mismatch: acute onset condition cannot be denied under chronic/pre-existing disease exclusion."
            constructive == "Invoke constructive knowledge: disclosed maintenance medication put insurer on notice, waiving non-disclosure defense."
        IN  IF NonExistentClauseReported
            THEN action = <<Flag("Immediate Escalation: The insurer is citing a non-existent policy clause. File a \"Bad Faith\" grievance on Bima Bharosa immediately.", <<>>)>>
            ELSE /\ Len(action) >= 1
                 /\ action[1] = Flag(agent_action, <<>>)
                 /\ Occurrences(action, agent_action) = 1
                 /\ Occurrences(action, clinical) =
                        IF global_reasoning.clinical_distinction_invalid = PyBool(TRUE) THEN 1 ELSE 0
                 /\ Occurrences(action, constructive) =
                        IF global_reasoning.constructive_knowledge = PyBool(TRUE) THEN 1 ELSE 0
                 /\ Len(action) = 1 + Occurrences(action, clinical)
                                    + Occurrences(action, constructive)

\* A cited clause reported absent without the ghost_rejection value, with
\* clinical and constructive findings present, gives the escalation alone.
C23_Witness ==
    /\ NodeReturned
    /\ args.evidence_report.forensic_validation.ghost_rejection = None
    /\ args.evidence_report.forensic_validation.clause_id = Str(<<"4", ".", "1">>)
    /\ args.evidence_report.forensic_validation.is_clause_present_in_policy = PyBool(FALSE)
    /\ args.evidence_report.global_reasoning.clinical_distinction_invalid = PyBool(TRUE)
    /\ args.evidence_report.global_reasoning.constructive_knowledge = PyBool(TRUE)
    /\ result.value.legal_analysis.recommended_action =
           <<Flag(ImmediateEscalationAction, <<>>)>>


\* The positions of the record at which a step was executed for a claim.
ExecutedAt(claim_id, step) ==
    {i \in 1..Len(executed) : executed[i] = Executed(claim_id, step)}

\* The position at which the latest run_workflow call was recorded.
LatestCall ==
    CHOOSE i \in 1..Len(executed) :
        /\ executed[i].step = "run_workflow"
        /\ \A j \in (i + 1)..Len(executed) : executed[j].step # "run_workflow"

\* The nodes the latest call has run, in order.
NodesOfLatestRun ==
    [k \in 1..(Len(executed) - LatestCall) |-> executed[LatestCall + k].step]

RunWorkflowReturned ==
    pc = "returned" /\ fn = "run_workflow" /\ result.status = "returned"

\* C26: when the checkpoint of the claim_id holds a final stage, which is
\* so after any earlier run_workflow call for it, run_workflow returns the
\* stored state and runs no node; over any sequence of calls with one
\* checkpoint store the complaint is filed at most once for a claim_id.
C26_FiledAtMostOnce ==
    /\ \A claim_id \in ClaimIds :
           Cardinality(ExecutedAt(claim_id, "file_bima_bharosa")) <= 1
    /\ ( /\ RunWorkflowReturned
         /\ \E i \in ExecutedAt(args.claim_id, "run_workflow") : i < LatestCall ) =>
           /\ NodesOfLatestRun = <<>>
           /\ result.value = checkpoints[args.claim_id]


\* The node names of a run that files the complaint, and the events it adds
\* to the timeline.
EscalatedRun == <<"analyze_documents", "draft_rebuttal", "wait_for_reply", "file_bima_bharosa">>

EscalatedEvents ==
    <<"Analysis complete", "Rebuttal drafted", "No insurer reply in 24h, escalating",
      "Bima Bharosa filing executed">>

RepliedRun == <<"analyze_documents", "draft_rebuttal", "wait_for_reply">>

RepliedEvents == <<"Analysis complete", "Rebuttal drafted", "Insurer replied in time">>

IsPrefix(s, t) == Len(s) <= Len(t) /\ s = SubSeq(t, 1, Len(s))

\* The events of the last n entries of a timeline.
LastEvents(timeline, n) ==
    [k \in 1..n |-> timeline[Len(timeline) - n + k].event]

\* A run of the graph is in progress.
GraphRunning == pc \in NodeNames \cup {"END"}

\* The state a run of the graph returned.
GraphReturned == RunWorkflowReturned /\ NodesOfLatestRun # <<>>

\* Every node that runs adds exactly one entry to the timeline.
OneTimelineEntryPerNode ==
    (executed' # executed /\ executed'[Len(executed')].step \in NodeNames) =>
        Len(state'.timeline) = Len(state.timeline) + 1

WebReturned(handler) == pc = "returned" /\ fn = handler /\ result.status = "returned"

AsSet(list) == {list[i] : i \in 1..Len(list)}

\* The two lists share no type and together hold the four required types.
Partitioned(documents) ==
    /\ AsSet(documents.uploaded_documents) \cap AsSet(documents.missing_documents) = {}
    /\ AsSet(documents.uploaded_documents) \cup AsSet(documents.missing_documents)
           = {"policy_document", "rejection_letter", "discharge_summary", "hospital_bill"}

DocumentsPartitioned ==
    /\ \A session_id \in DOMAIN chat_sessions :
          Partitioned(Documents(chat_sessions[session_id]))
    /\ (pc = "returned" /\ result.status = "returned") => Partitioned(result.value.documents)
    /\ WebReturned("chat_start") =>
          /\ result.value.documents.uploaded_documents = <<>>
          /\ Len(result.value.documents.missing_documents) = 4
          /\ Documents(chat_sessions[result.value.session_id]) = result.value.documents
    /\ WebReturned("chat_upload") =>
          /\ result.value.resolved_doc_type
                 \in AsSet(result.value.documents.uploaded_documents)
          /\ result.value.resolved_doc_type
                 \in AsSet(UploadedDocuments(chat_sessions[result.value.session_id]))

NoTypeMovesBack ==
    \A session_id \in DOMAIN chat_sessions :
        /\ session_id \in DOMAIN chat_sessions'
        /\ AsSet(MissingDocuments(chat_sessions'[session_id]))
               \subseteq AsSet(MissingDocuments(chat_sessions[session_id]))

\* C24: in every chat session, after any requests, the uploaded and the
\* missing documents are disjoint and together the four required types; a
\* new session has all four missing; an accepted upload has its resolved type
\* among the uploaded ones, and no type ever goes back to missing.
C24_UploadedAndMissingPartition ==
    []DocumentsPartitioned /\ [][NoTypeMovesBack]_vars

C24_Witness ==
    /\ WebReturned("chat_upload")
    /\ args.doc_type = NoText
    /\ result.value.resolved_doc_type = "hospital_bill"
    /\ Len(result.value.documents.uploaded_documents) >= 2
    /\ Len(result.value.documents.missing_documents) >= 1

\* The functions a request called.
Started(calls) == {calls[i].step : i \in 1..Len(calls)}

AnalysisCalls == {"_run_analysis_for_session", "analyze_documents"}

WorkflowCalls == {"_run_workflow_for_session", "run_workflow"}

\* A request is answered by the handler.
Handled(handler) == pc = "idle" /\ pc' = "returned" /\ fn' = handler

MessageStartsInOrder ==
    (Handled("chat_message") /\ result'.status = "returned") =>
        \E session \in {chat_sessions[args'.session_id]},
           lowered \in {Lower(Strip(args'.message))},
           started \in {Started(executed')} :
            /\ Len(MissingDocuments(session)) > 0 =>
                  /\ started = {}
                  /\ chat_sessions' = chat_sessions
                  /\ result'.value.documents.missing_documents = MissingDocuments(session)
                  /\ result'.value.analysis = "none"
                  /\ ~result'.value.workflow
            /\ started \cap WorkflowCalls # {} =>
                  /\ NonEmpty(session.last_analysis)
                  /\ started \cap AnalysisCalls = {}
            /\ ( /\ WantsEscalation(lowered)
                 /\ Len(MissingDocuments(session)) = 0
                 /\ ~NonEmpty(session.last_analysis) ) =>
                  /\ "_run_analysis_for_session" \in started
                  /\ started \cap WorkflowCalls = {}

UploadStartsAnalysis ==
    (Handled("chat_upload") /\ result'.status = "returned") =>
        \E session \in {chat_sessions'[args'.session_id]},
           started \in {Started(executed')} :
            /\ "_run_analysis_for_session" \in started
                   <=> Len(MissingDocuments(session)) = 0
            /\ started \cap WorkflowCalls = {}

OthersStartNothing ==
    /\ (Handled("chat_start") \/ Handled("chat_thread_note")) => executed' = <<>>
    /\ (pc = "idle" /\ pc' = "returned" /\ result'.status = "raised") => executed' = <<>>

\* C28: no analysis and no workflow is started for a session with a missing
\* document (a message then only lists what is pending); the upload after
\* which nothing is missing starts the analysis; a message starts the workflow
\* only in a session that holds an analysis, and an escalation message without
\* one runs the analysis and not the workflow.
C28_AnalysisBeforeEscalation ==
    [][MessageStartsInOrder /\ UploadStartsAnalysis /\ OthersStartNothing]_vars

C28_Witness ==
    /\ WebReturned("chat_message")
    /\ WantsEscalation(Lower(Strip(args.message)))
    /\ ~WantsAnalysis(Lower(Strip(args.message)))
    /\ executed # <<>>
    /\ executed[1].step = "_run_analysis_for_session"
    /\ ~result.value.workflow

====
